---- MODULE Spec2Model ----
(***************************************************************************)
(* State-vector simulation and analysis engine of the quantum circuit      *)
(* simulator: createInitialState, applySingleQubitGate, simulateCircuit   *)
(* (App), and calculateDensityMatrix, calculatePartialTrace,              *)
(* calculateVonNeumannEntropy, calculateEntanglementEntropy,              *)
(* calculateExpectationValues (DensityMatrixVisualizer).                   *)
(*                                                                         *)
(* Numbers.  Every amplitude the engine can produce from a basis state     *)
(* with the gates h, x, y, z, s, t lies in the ring Z[sqrt 2][1/2], so a   *)
(* JavaScript number is modelled exactly as (p + q*sqrt2) / 2^k, plus the  *)
(* two non-values NaN and "irr" (a finite value outside the ring).         *)
(* Rounding of IEEE-754 doubles is not modelled.                           *)
(***************************************************************************)
EXTENDS Integers, Sequences, FiniteSets, TLC

(***************************************************************************)
(* Bounds of the model.                                                    *)
(***************************************************************************)
\* qubit counts 1..MaxQubits are explored (the UI offers 1..8)
MaxQubits == 2
\* number of circuit columns explored (the App fixes its maxDepth state at 10)
maxDepth == 2
\* most placements in a circuit handed to the engine
MaxGates == 1

(***************************************************************************)
(* JavaScript numbers.                                                     *)
(***************************************************************************)
RECURSIVE Reduce(_, _, _)
Reduce(p, q, k) ==
  IF k > 0 /\ p % 2 = 0 /\ q % 2 = 0
    THEN Reduce(p \div 2, q \div 2, k - 1)
    ELSE [t |-> "fin", p |-> p, q |-> q, k |-> k]

Num(p, q, k) == Reduce(p, q, k)
FromInt(n) == [t |-> "fin", p |-> n, q |-> 0, k |-> 0]
NaN == [t |-> "NaN", p |-> 0, q |-> 0, k |-> 0]
Irr == [t |-> "irr", p |-> 0, q |-> 0, k |-> 0]
Zero == FromInt(0)
One == FromInt(1)
Half == Num(1, 0, 1)
InvSqrt2 == Num(0, 1, 1)

IsFin(x) == x.t = "fin"

\* result tag of a binary arithmetic operation on non-finite operands
Taint(x, y) == IF x.t = "NaN" \/ y.t = "NaN" THEN NaN ELSE Irr

NumAdd(x, y) ==
  IF IsFin(x) /\ IsFin(y)
    THEN LET k == IF x.k >= y.k THEN x.k ELSE y.k
             fx == 2 ^ (k - x.k)
             fy == 2 ^ (k - y.k)
         IN Num(x.p * fx + y.p * fy, x.q * fx + y.q * fy, k)
    ELSE Taint(x, y)

NumNeg(x) == IF IsFin(x) THEN [x EXCEPT !.p = 0 - x.p, !.q = 0 - x.q] ELSE x

NumSub(x, y) == NumAdd(x, NumNeg(y))

NumMul(x, y) ==
  IF IsFin(x) /\ IsFin(y)
    THEN Num(x.p * y.p + 2 * x.q * y.q, x.p * y.q + x.q * y.p, x.k + y.k)
    ELSE Taint(x, y)

\* sign of the finite number (p + q*sqrt2)/2^k
Sign(x) ==
  IF x.p >= 0 /\ x.q >= 0 THEN (IF x.p = 0 /\ x.q = 0 THEN 0 ELSE 1)
  ELSE IF x.p <= 0 /\ x.q <= 0 THEN -1
  ELSE IF x.p > 0 THEN (IF x.p * x.p > 2 * x.q * x.q THEN 1 ELSE -1)
  ELSE (IF 2 * x.q * x.q > x.p * x.p THEN 1 ELSE -1)

\* x <= y and x >= y as JavaScript evaluates them: false when either is NaN.
\* Only finite operands are compared by the modelled code paths.
NumLeq(x, y) == IsFin(x) /\ IsFin(y) /\ Sign(NumSub(x, y)) <= 0
NumGeq(x, y) == IsFin(x) /\ IsFin(y) /\ Sign(NumSub(x, y)) >= 0

\* integer square root, when n is a perfect square below the search bound
IsSquare(n) == \E r \in 0..n : r * r = n
IntRoot(n) == CHOOSE r \in 0..n : r * r = n

\* Math.sqrt: NaN for a negative argument, the exact root of a dyadic
\* perfect square, otherwise a finite value outside the ring.
MathSqrt(x) ==
  IF ~IsFin(x) THEN x
  ELSE IF Sign(x) < 0 THEN NaN
  ELSE IF x.q = 0 /\ x.k % 2 = 0 /\ x.p <= 64 /\ IsSquare(x.p)
    THEN Num(IntRoot(x.p), 0, x.k \div 2)
  ELSE Irr

\* Math.log2: exact on the powers of two 2^-k and on 1
MathLog2(x) ==
  IF ~IsFin(x) THEN x
  ELSE IF Sign(x) < 0 THEN NaN
  ELSE IF x.p = 1 /\ x.q = 0 THEN FromInt(0 - x.k)
  ELSE Irr

(***************************************************************************)
(* Complex values {re, im} and the bit operations on basis indices.        *)
(***************************************************************************)
Cx(re, im) == [re |-> re, im |-> im]
CZero == Cx(Zero, Zero)
COne == Cx(One, Zero)

Bit(i, q) == (i \div (2 ^ q)) % 2
FlipBit(i, q) == IF Bit(i, q) = 0 THEN i + 2 ^ q ELSE i - 2 ^ q

complexAdd(a, b) == Cx(NumAdd(a.re, b.re), NumAdd(a.im, b.im))

complexMultiply(a, b) ==
  Cx(NumSub(NumMul(a.re, b.re), NumMul(a.im, b.im)),
     NumAdd(NumMul(a.re, b.im), NumMul(a.im, b.re)))

(***************************************************************************)
(* Zero-based arrays are functions on 0..len-1.                            *)
(***************************************************************************)
Length(a) == Cardinality(DOMAIN a)
Pow2(n) == 2 ^ n

(***************************************************************************)
(* Gates of the palette and circuit cells.                                 *)
(***************************************************************************)
Gate(id, name, control, target) ==
  [id |-> id, name |-> name, control |-> control, target |-> target]

\* the value null of an empty cell
NullGate == Gate("null", "", FALSE, FALSE)

gateCategories ==
  { Gate("h", "H", FALSE, FALSE), Gate("x", "X", FALSE, FALSE),
    Gate("y", "Y", FALSE, FALSE), Gate("z", "Z", FALSE, FALSE),
    Gate("s", "S", FALSE, FALSE), Gate("t", "T", FALSE, FALSE),
    Gate("cx", "CX", TRUE, TRUE), Gate("cz", "CZ", TRUE, TRUE),
    Gate("swap", "SW", TRUE, TRUE), Gate("cp", "CP", TRUE, TRUE),
    Gate("measure", "M", FALSE, FALSE) }

SingleQubitIds == {"h", "x", "y", "z", "s", "t"}

\* the gates placed in the circuits that are evaluated: every gate with a
\* case of its own in the evaluator's switch, and cx for the default case
EvaluatedGates ==
  { g \in gateCategories : g.id \in SingleQubitIds \cup {"measure", "cx"} }

(***************************************************************************)
(* Gate matrices (row-major 2x2, indices 0 and 1).                         *)
(***************************************************************************)
Matrix(a, b, c, d) == [r \in 0..1 |-> [c2 \in 0..1 |->
  IF r = 0 THEN (IF c2 = 0 THEN a ELSE b) ELSE (IF c2 = 0 THEN c ELSE d)]]

\* Hadamard without its 1/sqrt2 factor
hadamardMatrix_unscaled ==
  Matrix(Cx(One, Zero), Cx(One, Zero),
         Cx(One, Zero), Cx(NumNeg(One), Zero))

\* Hadamard with the minus sign on the wrong entry
hadamardMatrix_sign ==
  Matrix(Cx(InvSqrt2, Zero), Cx(NumNeg(InvSqrt2), Zero),
         Cx(InvSqrt2, Zero), Cx(InvSqrt2, Zero))

hadamardMatrix ==
  Matrix(Cx(InvSqrt2, Zero), Cx(InvSqrt2, Zero),
         Cx(InvSqrt2, Zero), Cx(NumNeg(InvSqrt2), Zero))

\* X written as the identity
xMatrix_identity ==
  Matrix(Cx(One, Zero), Cx(Zero, Zero),
         Cx(Zero, Zero), Cx(One, Zero))

xMatrix ==
  Matrix(Cx(Zero, Zero), Cx(One, Zero),
         Cx(One, Zero), Cx(Zero, Zero))

yMatrix ==
  Matrix(Cx(Zero, Zero), Cx(Zero, NumNeg(One)),
         Cx(Zero, One), Cx(Zero, Zero))

zMatrix ==
  Matrix(Cx(One, Zero), Cx(Zero, Zero),
         Cx(Zero, Zero), Cx(NumNeg(One), Zero))

sMatrix ==
  Matrix(Cx(One, Zero), Cx(Zero, Zero),
         Cx(Zero, Zero), Cx(Zero, One))

\* Math.cos(Math.PI/4) = Math.sin(Math.PI/4) = sqrt2 / 2
tMatrix ==
  Matrix(Cx(One, Zero), Cx(Zero, Zero),
         Cx(Zero, Zero), Cx(InvSqrt2, InvSqrt2))

(***************************************************************************)
(* createInitialState                                                      *)
(***************************************************************************)
\* idx | (1 << i)
OrBit(idx, i) == IF Bit(idx, i) = 1 THEN idx ELSE idx + 2 ^ i

RECURSIVE basisStateIndex(_, _, _, _)
basisStateIndex(n, initialStates, i, idx) ==
  IF i >= n THEN idx
  ELSE basisStateIndex(n, initialStates, i + 1,
         IF initialStates[i].value = "1" THEN OrBit(idx, i) ELSE idx)

\* initialStates[i] is undefined for i >= initialStates.length and reading
\* its .value throws a TypeError
createInitialStateThrows(n, initialStates) ==
  \E i \in 0..(n - 1) : i >= Length(initialStates)

\* the basis index always left at 0
createInitialState_zero(n, initialStates) ==
  [i \in 0..(Pow2(n) - 1) |-> IF i = 0 THEN COne ELSE CZero]

createInitialState(n, initialStates) ==
  [i \in 0..(Pow2(n) - 1) |->
     IF i = basisStateIndex(n, initialStates, 0, 0) THEN COne ELSE CZero]

(***************************************************************************)
(* applySingleQubitGate                                                    *)
(***************************************************************************)
RECURSIVE applyLoop(_, _, _, _, _, _)
applyLoop(state, gateMatrix, qubit, size, i, newState) ==
  IF i >= size THEN newState
  ELSE LET flippedIndex == FlipBit(i, qubit)
           ns == IF Bit(i, qubit) = 0
                   THEN LET a == [newState EXCEPT ![i] =
                                    complexAdd(newState[i],
                                      complexMultiply(gateMatrix[0][0], state[i]))]
                        IN [a EXCEPT ![flippedIndex] =
                              complexAdd(a[flippedIndex],
                                complexMultiply(gateMatrix[0][1], state[i]))]
                   ELSE LET a == [newState EXCEPT ![flippedIndex] =
                                    complexAdd(newState[flippedIndex],
                                      complexMultiply(gateMatrix[1][0], state[i]))]
                        IN [a EXCEPT ![i] =
                              complexAdd(a[i],
                                complexMultiply(gateMatrix[1][1], state[i]))]
       IN applyLoop(state, gateMatrix, qubit, size, i + 1, ns)

\* the contents of the array `state` after the call
applySingleQubitGate(state, gateMatrix, qubit, n) ==
  applyLoop(state, gateMatrix, qubit, Pow2(n), 0,
            [i \in 0..(Pow2(n) - 1) |-> CZero])

(***************************************************************************)
(* simulateCircuit                                                         *)
(***************************************************************************)
\* JSON.parse(JSON.stringify(state)): a fresh array of fresh {re, im}
\* objects; a NaN component is written as null, which arithmetic reads as 0
jsonNumber(x) == IF x.t = "NaN" THEN Zero ELSE x
jsonClone(state) ==
  [i \in DOMAIN state |-> Cx(jsonNumber(state[i].re), jsonNumber(state[i].im))]

Step(step, state, description) ==
  [step |-> step, state |-> state, description |-> description]

\* the first step numbered 1
initialSteps_one(n, initialStates) ==
  << Step(1, createInitialState(n, initialStates), "Initial state") >>

\* steps = [{ step: 0, state: initialState, description: 'Initial state' }]
initialSteps(n, initialStates) ==
  << Step(0, createInitialState(n, initialStates), "Initial state") >>

\* the scan for any gate, column by column and row by row, stopping at the
\* first placement; reading a cell of a row the circuit does not have throws
RECURSIVE hasAnyGates(_, _, _)
hasAnyGates(n, circuit, k) ==
  IF k >= maxDepth * n THEN "false"
  ELSE LET col == k \div n
           row == k % n
       IN IF row >= Length(circuit) THEN "throw"
          ELSE IF circuit[row][col].gate # NullGate THEN "true"
          ELSE hasAnyGates(n, circuit, k + 1)

\* the placements collected from the last row up
RECURSIVE gatesInColumn_descending(_, _, _, _)
gatesInColumn_descending(n, circuit, col, row) ==
  IF row >= n THEN << >>
  ELSE IF circuit[row][col].gate # NullGate
    THEN gatesInColumn_descending(n, circuit, col, row + 1)
           \o << [qubit |-> row, gate |-> circuit[row][col].gate] >>
    ELSE gatesInColumn_descending(n, circuit, col, row + 1)

\* gatesApplied of one column: {qubit, gate} of every placement, rows ascending
RECURSIVE gatesInColumn(_, _, _, _)
gatesInColumn(n, circuit, col, row) ==
  IF row >= n THEN << >>
  ELSE IF circuit[row][col].gate # NullGate
    THEN << [qubit |-> row, gate |-> circuit[row][col].gate] >>
           \o gatesInColumn(n, circuit, col, row + 1)
    ELSE gatesInColumn(n, circuit, col, row + 1)

\* a measurement that flips the measured qubit
gateCase_measureFlips(newState, qubit, gate, n) ==
  CASE gate.id = "h" -> applySingleQubitGate(newState, hadamardMatrix, qubit, n)
    [] gate.id = "measure" -> applySingleQubitGate(newState, xMatrix, qubit, n)
    [] OTHER -> newState

\* the switch on gate.id: the state after the gate
gateCase(newState, qubit, gate, n) ==
  CASE gate.id = "h" -> applySingleQubitGate(newState, hadamardMatrix, qubit, n)
    [] gate.id = "x" -> applySingleQubitGate(newState, xMatrix, qubit, n)
    [] gate.id = "y" -> applySingleQubitGate(newState, yMatrix, qubit, n)
    [] gate.id = "z" -> applySingleQubitGate(newState, zMatrix, qubit, n)
    [] gate.id = "s" -> applySingleQubitGate(newState, sMatrix, qubit, n)
    [] gate.id = "t" -> applySingleQubitGate(newState, tMatrix, qubit, n)
    [] OTHER -> newState

\* the switch on gate.id: the entry pushed on gateDescriptions
gateDescription(qubit, gate) ==
  CASE gate.id = "h" -> "Hadamard (H) to qubit " \o ToString(qubit)
    [] gate.id = "x" -> "X gate to qubit " \o ToString(qubit)
    [] gate.id = "y" -> "Y gate to qubit " \o ToString(qubit)
    [] gate.id = "z" -> "Z gate to qubit " \o ToString(qubit)
    [] gate.id = "s" -> "S gate to qubit " \o ToString(qubit)
    [] gate.id = "t" -> "T gate to qubit " \o ToString(qubit)
    [] gate.id = "measure" -> "Measurement on qubit " \o ToString(qubit)
    [] OTHER -> gate.name \o " gate to qubit " \o ToString(qubit)

\* for (const { qubit, gate } of gatesApplied): state and descriptions
RECURSIVE applyGates(_, _, _, _, _)
applyGates(newState, gateDescriptions, gatesApplied, g, n) ==
  IF g > Len(gatesApplied)
    THEN [state |-> newState, gateDescriptions |-> gateDescriptions]
    ELSE applyGates(gateCase(newState, gatesApplied[g].qubit, gatesApplied[g].gate, n),
                    Append(gateDescriptions,
                           gateDescription(gatesApplied[g].qubit, gatesApplied[g].gate)),
                    gatesApplied, g + 1, n)

\* gateDescriptions.join(', ')
RECURSIVE join(_, _)
join(strs, g) ==
  IF g > Len(strs) THEN ""
  ELSE IF g = Len(strs) THEN strs[g]
  ELSE strs[g] \o ", " \o join(strs, g + 1)

\* the body of the column loop for one column
simulateColumn(n, circuit, col, steps) ==
  LET gatesApplied == gatesInColumn(n, circuit, col, 0)
  IN IF gatesApplied # << >>
       THEN LET prevState == jsonClone(steps[Len(steps)].state)
                applied == applyGates(jsonClone(prevState), << >>, gatesApplied, 1, n)
            IN Append(steps,
                      Step(Len(steps), applied.state,
                           "Applied " \o join(applied.gateDescriptions, 1)))
       ELSE steps

RECURSIVE columnLoop(_, _, _, _)
columnLoop(n, circuit, col, steps) ==
  IF col >= maxDepth THEN steps
  ELSE columnLoop(n, circuit, col + 1, simulateColumn(n, circuit, col, steps))

Returned(steps) == [kind |-> "history", steps |-> steps]
Thrown(name) == [kind |-> name, steps |-> << >>]

\* simulateCircuit(circuit, initialStates) in a render where the qubit count
\* is n: the history returned, or the error thrown
simulateCircuit(n, circuit, initialStates) ==
  IF createInitialStateThrows(n, initialStates) THEN Thrown("TypeError")
  ELSE LET steps == initialSteps(n, initialStates)
           any == hasAnyGates(n, circuit, 0)
       IN IF any = "throw" THEN Thrown("TypeError")
          ELSE IF any = "false" THEN Returned(steps)
          ELSE IF n > Length(circuit) THEN Thrown("TypeError")
          ELSE Returned(columnLoop(n, circuit, 0, steps))

(***************************************************************************)
(* DensityMatrixVisualizer: density matrix, partial trace, entropy,        *)
(* expectation values.                                                     *)
(***************************************************************************)
\* psi[i] * psi[j], the conjugation left out
calculateDensityMatrix_noconj(stateVector) ==
  LET size == Length(stateVector)
  IN [i \in 0..(size - 1) |-> [j \in 0..(size - 1) |->
        complexMultiply(stateVector[i], stateVector[j])]]

calculateDensityMatrix(stateVector) ==
  LET size == Length(stateVector)
  IN [i \in 0..(size - 1) |-> [j \in 0..(size - 1) |->
        Cx(NumAdd(NumMul(stateVector[i].re, stateVector[j].re),
                  NumMul(stateVector[i].im, stateVector[j].im)),
           NumSub(NumMul(stateVector[i].im, stateVector[j].re),
                  NumMul(stateVector[i].re, stateVector[j].im)))]]

\* traceOutQubits.includes(qubit); the array is a sequence
includes(arr, qubit) == \E k \in 1..Len(arr) : arr[k] = qubit

RECURSIVE mapToReducedIndex(_, _, _, _, _, _)
mapToReducedIndex(fullIndex, numQubits, traceOutQubits, qubit, bitPosition, reducedIndex) ==
  IF qubit >= numQubits THEN reducedIndex
  ELSE IF includes(traceOutQubits, qubit)
    THEN mapToReducedIndex(fullIndex, numQubits, traceOutQubits,
                           qubit + 1, bitPosition, reducedIndex)
    ELSE mapToReducedIndex(fullIndex, numQubits, traceOutQubits,
                           qubit + 1, bitPosition + 1,
                           IF Bit(fullIndex, qubit) # 0
                             THEN OrBit(reducedIndex, bitPosition)
                             ELSE reducedIndex)

\* the check of the traced-out bits left out
shouldInclude_always(i, j, traceOutQubits) == TRUE

\* every traced-out qubit has the same value in i and j
shouldInclude(i, j, traceOutQubits) ==
  \A k \in 1..Len(traceOutQubits) :
     Bit(i, traceOutQubits[k]) = Bit(j, traceOutQubits[k])

\* the contribution stored over the entry, not added to it
RECURSIVE traceLoop_overwrite(_, _, _, _, _)
traceLoop_overwrite(densityMatrix, numQubits, traceOutQubits, k, reducedMatrix) ==
  LET totalDim == Length(densityMatrix)
  IN IF k >= totalDim * totalDim THEN reducedMatrix
     ELSE LET i == k \div totalDim
              j == k % totalDim
          IN IF shouldInclude(i, j, traceOutQubits)
               THEN LET reducedI == mapToReducedIndex(i, numQubits, traceOutQubits, 0, 0, 0)
                        reducedJ == mapToReducedIndex(j, numQubits, traceOutQubits, 0, 0, 0)
                    IN traceLoop_overwrite(densityMatrix, numQubits, traceOutQubits, k + 1,
                         [reducedMatrix EXCEPT ![reducedI][reducedJ] = densityMatrix[i][j]])
               ELSE traceLoop_overwrite(densityMatrix, numQubits, traceOutQubits, k + 1,
                                        reducedMatrix)

\* the double loop over (i, j), k = i * totalDim + j
RECURSIVE traceLoop(_, _, _, _, _)
traceLoop(densityMatrix, numQubits, traceOutQubits, k, reducedMatrix) ==
  LET totalDim == Length(densityMatrix)
  IN IF k >= totalDim * totalDim THEN reducedMatrix
     ELSE LET i == k \div totalDim
              j == k % totalDim
          IN IF shouldInclude(i, j, traceOutQubits)
               THEN LET reducedI == mapToReducedIndex(i, numQubits, traceOutQubits, 0, 0, 0)
                        reducedJ == mapToReducedIndex(j, numQubits, traceOutQubits, 0, 0, 0)
                        old == reducedMatrix[reducedI][reducedJ]
                    IN traceLoop(densityMatrix, numQubits, traceOutQubits, k + 1,
                         [reducedMatrix EXCEPT ![reducedI][reducedJ] =
                            Cx(NumAdd(old.re, densityMatrix[i][j].re),
                               NumAdd(old.im, densityMatrix[i][j].im))])
               ELSE traceLoop(densityMatrix, numQubits, traceOutQubits, k + 1,
                              reducedMatrix)

calculatePartialTrace(densityMatrix, numQubits, traceOutQubits) ==
  LET reducedDim == Pow2(numQubits - Len(traceOutQubits))
  IN traceLoop(densityMatrix, numQubits, traceOutQubits, 0,
       [a \in 0..(reducedDim - 1) |-> [b \in 0..(reducedDim - 1) |-> CZero]])

\* the string returned for matrices larger than 2x2
RequiresEigen == [t |-> "Calculation requires eigenvalue decomposition",
                  p |-> 0, q |-> 0, k |-> 0]

calculateVonNeumannEntropy(densityMatrix) ==
  IF Length(densityMatrix) = 2
    THEN LET purity ==
               NumSub(NumSub(NumMul(densityMatrix[0][0].re, densityMatrix[1][1].re),
                             NumMul(densityMatrix[0][1].re, densityMatrix[1][0].re)),
                      NumMul(densityMatrix[0][1].im, densityMatrix[1][0].im))
             lambda ==
               NumMul(Half,
                      NumAdd(One, MathSqrt(NumSub(NumMul(FromInt(2), purity), One))))
         IN IF NumLeq(lambda, Zero) \/ NumGeq(lambda, One) THEN Zero
            ELSE NumSub(NumMul(NumNeg(lambda), MathLog2(lambda)),
                        NumMul(NumSub(One, lambda), MathLog2(NumSub(One, lambda))))
    ELSE RequiresEigen

\* qubitsB: the qubits below numQubits that qubitsA does not include
RECURSIVE complement(_, _, _)
complement(numQubits, qubitsA, i) ==
  IF i >= numQubits THEN << >>
  ELSE IF ~includes(qubitsA, i)
    THEN << i >> \o complement(numQubits, qubitsA, i + 1)
    ELSE complement(numQubits, qubitsA, i + 1)

calculateEntanglementEntropy(stateVector, numQubits, qubitsA) ==
  calculateVonNeumannEntropy(
    calculatePartialTrace(calculateDensityMatrix(stateVector), numQubits,
                          complement(numQubits, qubitsA, 0)))

\* |re|^2 + |im|^2 of one amplitude
probability(amp) == NumAdd(NumMul(amp.re, amp.re), NumMul(amp.im, amp.im))

\* the value of qubit 0 read for every qubit
RECURSIVE expectationZ_qubit0(_, _, _, _)
expectationZ_qubit0(stateVector, qubit, i, acc) ==
  IF i >= Length(stateVector) THEN acc
  ELSE expectationZ_qubit0(stateVector, qubit, i + 1,
         NumAdd(acc, IF Bit(i, 0) = 0
                       THEN probability(stateVector[i])
                       ELSE NumNeg(probability(stateVector[i]))))

RECURSIVE expectationZ(_, _, _, _)
expectationZ(stateVector, qubit, i, acc) ==
  IF i >= Length(stateVector) THEN acc
  ELSE expectationZ(stateVector, qubit, i + 1,
         NumAdd(acc, IF Bit(i, qubit) = 0
                       THEN probability(stateVector[i])
                       ELSE NumNeg(probability(stateVector[i]))))

calculateExpectationValues(stateVector, numQubits) ==
  [qubit \in 0..(numQubits - 1) |->
     [qubit |-> qubit, z |-> expectationZ(stateVector, qubit, 0, Zero)]]

\* what one render of the component computes from its props
DensityMatrixVisualizer(stateData, numQubits) ==
  [shown |-> TRUE,
   densityMatrix |-> calculateDensityMatrix(stateData),
   expectationValues |-> calculateExpectationValues(stateData, numQubits),
   firstQubitEntanglement |-> calculateEntanglementEntropy(stateData, numQubits, << 0 >>)]

(***************************************************************************)
(* Text emitters: convertToOpenQASM, convertToQiskitPython                 *)
(* (CircuitConverter) and generateQiskitCode (QiskitIntegration).  A text  *)
(* is the sequence of its lines; every piece the code appends ends with a  *)
(* newline.                                                                *)
(***************************************************************************)
\* the unknown-gate comment left out
getQASMGate_silent(gateId, qubit) ==
  IF gateId \in SingleQubitIds
    THEN << gateId \o " q[" \o ToString(qubit) \o "];" >>
    ELSE << >>

getQASMGate(gateId, qubit) ==
  IF gateId \in SingleQubitIds
    THEN << gateId \o " q[" \o ToString(qubit) \o "];" >>
    ELSE << "// Unknown gate " \o gateId \o " on qubit " \o ToString(qubit) >>

getQASMControlGate(gateId, controlQubit, targetQubit) ==
  CASE gateId \in {"cx", "cz", "swap"} ->
         << gateId \o " q[" \o ToString(controlQubit) \o "], q["
                   \o ToString(targetQubit) \o "];" >>
    [] gateId = "cp" ->
         << "// Custom controlled-phase gate",
            "cp(pi/4) q[" \o ToString(controlQubit) \o "], q["
                          \o ToString(targetQubit) \o "];" >>
    [] OTHER ->
         << "// Unknown controlled gate " \o gateId \o " from "
              \o ToString(controlQubit) \o " to " \o ToString(targetQubit) >>

getPythonGate(gateId, qubit) ==
  IF gateId \in SingleQubitIds
    THEN << "circuit." \o gateId \o "(" \o ToString(qubit) \o ")" >>
    ELSE << "# Unknown gate " \o gateId \o " on qubit " \o ToString(qubit) >>

getPythonControlGate(gateId, controlQubit, targetQubit) ==
  CASE gateId \in {"cx", "cz", "swap"} ->
         << "circuit." \o gateId \o "(" \o ToString(controlQubit) \o ", "
                       \o ToString(targetQubit) \o ")" >>
    [] gateId = "cp" ->
         << "circuit.cp(3.14159/4, " \o ToString(controlQubit) \o ", "
                       \o ToString(targetQubit) \o ")  # pi/4" >>
    [] OTHER ->
         << "# Unknown controlled gate " \o gateId \o " from "
              \o ToString(controlQubit) \o " to " \o ToString(targetQubit) >>

\* the switch on cell.gate.id of generateQiskitCode, single-qubit cells
qiskitGate(gateId, row) ==
  CASE gateId = "h" ->
         << "qc.h(" \o ToString(row) \o ")  # Hadamard gate on qubit " \o ToString(row) >>
    [] gateId \in {"x", "y", "z", "s", "t"} ->
         << "qc." \o gateId \o "(" \o ToString(row) \o ")  # "
              \o (CASE gateId = "x" -> "X" [] gateId = "y" -> "Y" [] gateId = "z" -> "Z"
                    [] gateId = "s" -> "S" [] gateId = "t" -> "T")
              \o " gate on qubit " \o ToString(row) >>
    [] gateId = "measure" ->
         << "qc.measure(" \o ToString(row) \o ", " \o ToString(row)
              \o ")  # Measure qubit " \o ToString(row) >>
    [] OTHER ->
         << "# Unknown gate " \o gateId \o " on qubit " \o ToString(row) >>

\* the switch on cell.gate.id of generateQiskitCode, control cells
qiskitControlGate(gateId, row, targetRow) ==
  CASE gateId = "cx" ->
         << "qc.cx(" \o ToString(row) \o ", " \o ToString(targetRow)
              \o ")  # CNOT with control=" \o ToString(row)
              \o ", target=" \o ToString(targetRow) >>
    [] gateId = "cz" ->
         << "qc.cz(" \o ToString(row) \o ", " \o ToString(targetRow)
              \o ")  # CZ with control=" \o ToString(row)
              \o ", target=" \o ToString(targetRow) >>
    [] gateId = "swap" ->
         << "qc.swap(" \o ToString(row) \o ", " \o ToString(targetRow)
              \o ")  # SWAP qubits " \o ToString(row) \o " and " \o ToString(targetRow) >>
    [] OTHER ->
         << "# Unknown controlled gate " \o gateId \o " from qubit "
              \o ToString(row) \o " to " \o ToString(targetRow) >>

\* what emitter e appends for a single-qubit cell and for a control cell
\* whose target is on targetRow
singleGateText(e, gateId, row) ==
  CASE e = "qasm" -> getQASMGate(gateId, row)
    [] e = "python" -> getPythonGate(gateId, row)
    [] e = "qiskit" -> qiskitGate(gateId, row)

controlGateText(e, gateId, row, targetRow) ==
  CASE e = "qasm" -> getQASMControlGate(gateId, row, targetRow)
    [] e = "python" -> getPythonControlGate(gateId, row, targetRow)
    [] e = "qiskit" -> qiskitControlGate(gateId, row, targetRow)

measureText(e, row) ==
  CASE e = "qasm" ->
         << "measure q[" \o ToString(row) \o "] -> c[" \o ToString(row) \o "];" >>
    [] e = "python" ->
         << "circuit.measure(" \o ToString(row) \o ", " \o ToString(row) \o ")" >>

\* "First process single-qubit gates": the cells whose gate is neither
\* control nor target, rows ascending
RECURSIVE singleQubitGates(_, _, _, _, _)
singleQubitGates(e, c, n, col, row) ==
  IF row >= n THEN << >>
  ELSE LET gate == c[row][col].gate
       IN (IF gate # NullGate /\ ~gate.control /\ ~gate.target
             THEN singleGateText(e, gate.id, row) ELSE << >>)
          \o singleQubitGates(e, c, n, col, row + 1)

\* "Find the target qubit": the first row from targetRow on whose cell is a
\* target with the id, or -1
RECURSIVE findTarget(_, _, _, _, _)
findTarget(c, n, col, gateId, targetRow) ==
  IF targetRow >= n THEN -1
  ELSE LET gate == c[targetRow][col].gate
       IN IF gate # NullGate /\ gate.target /\ gate.id = gateId
            THEN targetRow
            ELSE findTarget(c, n, col, gateId, targetRow + 1)

\* "Then process multi-qubit gates": the control cells, rows ascending
RECURSIVE multiQubitGates(_, _, _, _, _)
multiQubitGates(e, c, n, col, row) ==
  IF row >= n THEN << >>
  ELSE LET gate == c[row][col].gate
           targetRow == findTarget(c, n, col, gate.id, 0)
       IN (IF gate # NullGate /\ gate.control /\ targetRow >= 0
             THEN controlGateText(e, gate.id, row, targetRow) ELSE << >>)
          \o multiQubitGates(e, c, n, col, row + 1)

\* "Process measurements", rows ascending
RECURSIVE measurements(_, _, _, _, _)
measurements(e, c, n, col, row) ==
  IF row >= n THEN << >>
  ELSE (IF c[row][col].gate # NullGate /\ c[row][col].gate.id = "measure"
          THEN measureText(e, row) ELSE << >>)
       \o measurements(e, c, n, col, row + 1)

\* the two-qubit gates of a column emitted before its single-qubit gates
qasmColumn_controlsFirst(c, n, col) ==
  multiQubitGates("qasm", c, n, col, 0) \o singleQubitGates("qasm", c, n, col, 0)
    \o measurements("qasm", c, n, col, 0)

\* the body of the column loop of convertToOpenQASM
qasmColumn(c, n, col) ==
  singleQubitGates("qasm", c, n, col, 0) \o multiQubitGates("qasm", c, n, col, 0)
    \o measurements("qasm", c, n, col, 0)

\* the body of the column loop of convertToQiskitPython
pythonColumn(c, n, col) ==
  singleQubitGates("python", c, n, col, 0) \o multiQubitGates("python", c, n, col, 0)
    \o measurements("python", c, n, col, 0)

\* the body of the column loop of generateQiskitCode: an empty line after
\* a column that emitted something (hasGatesInColumn)
qiskitColumn(c, n, col) ==
  LET text == singleQubitGates("qiskit", c, n, col, 0)
                \o multiQubitGates("qiskit", c, n, col, 0)
  IN IF text # << >> THEN text \o << "" >> ELSE text

\* for (let col = 0; col < circuit[0].length; col++)
RECURSIVE emitColumns(_, _, _, _)
emitColumns(e, c, n, col) ==
  IF col >= Length(c[0]) THEN << >>
  ELSE (CASE e = "qasm" -> qasmColumn(c, n, col)
          [] e = "python" -> pythonColumn(c, n, col)
          [] e = "qiskit" -> qiskitColumn(c, n, col))
       \o emitColumns(e, c, n, col + 1)

\* circuit[0] of an empty circuit and circuit[row] of a missing row are
\* undefined: reading .length or [col] of them throws a TypeError
emitThrows(c, n) ==
  \/ Length(c) = 0
  \/ Length(c[0]) > 0 /\ n > Length(c)

Text(e, lines) == [kind |-> "text", emitter |-> e, lines |-> lines]
TextThrown(e) == [kind |-> "TypeError", emitter |-> e, lines |-> << >>]

convertToOpenQASM(c, n) ==
  IF emitThrows(c, n) THEN TextThrown("qasm")
  ELSE Text("qasm",
         << "OPENQASM 2.0;", "include \"qelib1.inc\";", "",
            "qreg q[" \o ToString(n) \o "];",
            "creg c[" \o ToString(n) \o "];", "" >>
         \o emitColumns("qasm", c, n, 0))

convertToQiskitPython(c, n) ==
  IF emitThrows(c, n) THEN TextThrown("python")
  ELSE Text("python",
         << "from qiskit import QuantumCircuit, Aer, execute",
            "from qiskit.visualization import plot_histogram, plot_bloch_multivector",
            "",
            "# Create a Quantum Circuit with " \o ToString(n) \o " qubits",
            "circuit = QuantumCircuit(" \o ToString(n) \o ", " \o ToString(n) \o ")",
            "" >>
         \o emitColumns("python", c, n, 0)
         \o << "", "# Simulate the circuit",
               "simulator = Aer.get_backend(\"statevector_simulator\")",
               "job = execute(circuit, simulator)",
               "result = job.result()",
               "statevector = result.get_statevector()", "",
               "# Print the state vector",
               "print(\"State Vector:\", statevector)", "",
               "# Visualize the state vector",
               "plot_bloch_multivector(statevector)", "",
               "# Run on qasm simulator for measurement results",
               "qasm_simulator = Aer.get_backend(\"qasm_simulator\")",
               "qasm_job = execute(circuit, qasm_simulator, shots=1024)",
               "qasm_result = qasm_job.result()",
               "counts = qasm_result.get_counts(circuit)",
               "plot_histogram(counts)" >>)

\* "Initialize qubits": qc.x(i) for every qubit whose initial value is '1'
RECURSIVE initializeQubits(_, _, _)
initializeQubits(n, init, i) ==
  IF i >= n THEN << >>
  ELSE (IF init[i].value = "1"
          THEN << "qc.x(" \o ToString(i) \o ")  # Initialize qubit "
                    \o ToString(i) \o " to |1>" >>
          ELSE << >>)
       \o initializeQubits(n, init, i + 1)

generateQiskitCode(c, n, init) ==
  IF Length(init) < n \/ emitThrows(c, n) THEN TextThrown("qiskit")
  ELSE Text("qiskit",
         << "",
            "from qiskit import QuantumCircuit, Aer, transpile, assemble",
            "from qiskit.visualization import plot_histogram, plot_bloch_multivector",
            "import numpy as np", "",
            "# Create a Quantum Circuit with " \o ToString(n)
               \o " qubits and classical bits",
            "qc = QuantumCircuit(" \o ToString(n) \o ", " \o ToString(n) \o ")", "",
            "# Initialize qubits based on initial states" >>
         \o initializeQubits(n, init, 0)
         \o << "", "# Add gates to the circuit" >>
         \o emitColumns("qiskit", c, n, 0)
         \o << "", "# Draw the circuit", "print(qc)", "",
               "# Execute the circuit on a statevector simulator",
               "simulator = Aer.get_backend('statevector_simulator')",
               "job = assemble(transpile(qc, simulator))",
               "result = simulator.run(job).result()",
               "statevector = result.get_statevector(qc)", "",
               "# Print the state vector",
               "print(\"State vector:\")", "print(statevector)", "",
               "# Visualize the state vector",
               "plot_bloch_multivector(statevector)", "",
               "# Execute the circuit on a qasm simulator",
               "simulator = Aer.get_backend('qasm_simulator')",
               "job = assemble(transpile(qc, simulator), shots=1024)",
               "result = simulator.run(job).result()",
               "counts = result.get_counts(qc)", "",
               "# Plot the results", "plot_histogram(counts)" >>)

(***************************************************************************)
(* Remote runs: convertToQiskitCircuit and mockQiskitSimulation            *)
(* (QiskitIntegration).                                                    *)
(***************************************************************************)
RECURSIVE SetToSeq(_)
SetToSeq(S) ==
  IF S = {} THEN << >>
  ELSE LET m == CHOOSE x \in S : \A y \in S : x <= y
       IN << m >> \o SetToSeq(S \ {m})

\* the entries pushed on qiskitCircuitData.gates for one column: the
\* single-qubit cells, rows ascending, then the control cells that have a
\* target, rows ascending
columnGates(c, n, col) ==
  LET singles == SetToSeq({ row \in 0..(n - 1) :
                    /\ c[row][col].gate # NullGate
                    /\ ~c[row][col].gate.control
                    /\ ~c[row][col].gate.target })
      controls == SetToSeq({ row \in 0..(n - 1) :
                    /\ c[row][col].gate # NullGate
                    /\ c[row][col].gate.control
                    /\ findTarget(c, n, col, c[row][col].gate.id, 0) >= 0 })
  IN [k \in 1..Len(singles) |->
        [name |-> c[singles[k]][col].gate.id, qubits |-> << singles[k] >>,
         position |-> col]]
     \o [k \in 1..Len(controls) |->
           [name |-> c[controls[k]][col].gate.id,
            qubits |-> << controls[k],
                          findTarget(c, n, col, c[controls[k]][col].gate.id, 0) >>,
            position |-> col]]

RECURSIVE circuitGates(_, _, _)
circuitGates(c, n, col) ==
  IF col >= Length(c[0]) THEN << >>
  ELSE columnGates(c, n, col) \o circuitGates(c, n, col + 1)

\* qiskitCircuitData, as the value carried by a request
convertToQiskitCircuit(c, n, init) ==
  [pending |-> TRUE,
   numQubits |-> n,
   initialStates |-> [i \in DOMAIN init |-> init[i].value],
   gates |-> circuitGates(c, n, 0)]

\* initialStateIdx |= (1 << idx) over the entries that are '1'
RECURSIVE initialStateIdx(_, _, _)
initialStateIdx(values, idx, acc) ==
  IF idx >= Length(values) THEN acc
  ELSE initialStateIdx(values, idx + 1,
         IF values[idx] = "1" THEN OrBit(acc, idx) ELSE acc)

\* x / Math.sqrt(2)
DivSqrt2(x) == NumMul(x, InvSqrt2)

\* the Hadamard of the mock: each pair (i, i1) replaced by
\* ((a + b)/sqrt2, (a - b)/sqrt2)
mockHadamard(stateVector, qubit) ==
  [i \in DOMAIN stateVector |->
     LET temp0 == stateVector[IF Bit(i, qubit) = 0 THEN i ELSE FlipBit(i, qubit)]
         temp1 == stateVector[IF Bit(i, qubit) = 0 THEN FlipBit(i, qubit) ELSE i]
     IN IF Bit(i, qubit) = 0
          THEN Cx(DivSqrt2(NumAdd(temp0.re, temp1.re)),
                  DivSqrt2(NumAdd(temp0.im, temp1.im)))
          ELSE Cx(DivSqrt2(NumSub(temp0.re, temp1.re)),
                  DivSqrt2(NumSub(temp0.im, temp1.im)))]

\* for (const gate of circuitData.gates): only 'h' on one qubit is simulated
RECURSIVE mockGates(_, _, _)
mockGates(stateVector, gates, g) ==
  IF g > Len(gates) THEN stateVector
  ELSE mockGates(IF gates[g].name = "h" /\ Len(gates[g].qubits) = 1
                   THEN mockHadamard(stateVector, gates[g].qubits[1])
                   ELSE stateVector,
                 gates, g + 1)

\* the statevector field of what mockQiskitSimulation returns
mockQiskitSimulation(circuitData) ==
  mockGates([i \in 0..(Pow2(circuitData.numQubits) - 1) |->
               IF i = initialStateIdx(circuitData.initialStates, 0, 0)
                 THEN COne ELSE CZero],
            circuitData.gates, 1)

(***************************************************************************)
(* simulateCircuit on the heap.  JavaScript arrays and objects are         *)
(* references: mem.arr[a] is the array at address a, a function from its   *)
(* indices to addresses of amplitude objects, and mem.obj[o] is the        *)
(* {re, im} object at address o.  mem.steps is the steps array of the call *)
(* in progress, each step holding the address of its state array, mem.col  *)
(* the column the loop is at (-1 outside a call) and mem.runs the          *)
(* histories returned so far.                                              *)
(***************************************************************************)
\* a new array of new objects holding `values`: the memory and the address
Alloc(mem, values) ==
  [mem |-> [mem EXCEPT
              !.arr = Append(@, [i \in DOMAIN values |-> Len(mem.obj) + i + 1]),
              !.obj = @ \o [k \in 1..Length(values) |-> values[k - 1]]],
   at |-> Len(mem.arr) + 1]

\* the amplitudes read through the array at address a
At(mem, a) == [i \in DOMAIN mem.arr[a] |-> mem.obj[mem.arr[a][i]]]

\* createInitialState: Array(size).fill().map(() => ({ re: 0, im: 0 })),
\* then state[basisStateIndex] = { re: 1, im: 0 }, one more new object
createInitialStateRef(mem, n, initialStates) ==
  LET state == Alloc(mem, [i \in 0..(Pow2(n) - 1) |-> CZero])
      one == Len(state.mem.obj) + 1
  IN [mem |-> [state.mem EXCEPT
                 !.obj = Append(@, COne),
                 !.arr[state.at][basisStateIndex(n, initialStates, 0, 0)] = one],
      at |-> state.at]

\* the array handed back as it is
jsonCloneRef_alias(mem, a) ==
  [mem |-> mem, at |-> a]

\* JSON.parse(JSON.stringify(state)): a new array of new objects
jsonCloneRef(mem, a) ==
  Alloc(mem, jsonClone(At(mem, a)))

\* applySingleQubitGate(state, ...) with state the array at address a:
\* newState is a new array whose entries complexAdd makes anew, and the
\* closing loop state[i] = newState[i] stores those objects in state
applySingleQubitGateRef(mem, a, gateMatrix, qubit, n) ==
  LET newState == Alloc(mem, applySingleQubitGate(At(mem, a), gateMatrix, qubit, n))
  IN [newState.mem EXCEPT !.arr[a] = newState.mem.arr[newState.at]]

\* the switch on gate.id: the memory after the gate
gateCaseRef(mem, a, qubit, gate, n) ==
  CASE gate.id = "h" -> applySingleQubitGateRef(mem, a, hadamardMatrix, qubit, n)
    [] gate.id = "x" -> applySingleQubitGateRef(mem, a, xMatrix, qubit, n)
    [] gate.id = "y" -> applySingleQubitGateRef(mem, a, yMatrix, qubit, n)
    [] gate.id = "z" -> applySingleQubitGateRef(mem, a, zMatrix, qubit, n)
    [] gate.id = "s" -> applySingleQubitGateRef(mem, a, sMatrix, qubit, n)
    [] gate.id = "t" -> applySingleQubitGateRef(mem, a, tMatrix, qubit, n)
    [] OTHER -> mem

\* for (const { qubit, gate } of gatesApplied) on the array at address a
RECURSIVE applyGatesRef(_, _, _, _, _, _)
applyGatesRef(mem, a, gateDescriptions, gatesApplied, g, n) ==
  IF g > Len(gatesApplied)
    THEN [mem |-> mem, gateDescriptions |-> gateDescriptions]
    ELSE applyGatesRef(gateCaseRef(mem, a, gatesApplied[g].qubit, gatesApplied[g].gate, n),
                       a,
                       Append(gateDescriptions,
                              gateDescription(gatesApplied[g].qubit, gatesApplied[g].gate)),
                       gatesApplied, g + 1, n)

\* the step numbered by its column
simulateColumnRef_byColumn(mem, n, circuit, col) ==
  LET gatesApplied == gatesInColumn(n, circuit, col, 0)
  IN IF gatesApplied # << >>
       THEN LET prevState == jsonCloneRef(mem, mem.steps[Len(mem.steps)].state)
                newState == jsonCloneRef(prevState.mem, prevState.at)
                applied == applyGatesRef(newState.mem, newState.at, << >>,
                                         gatesApplied, 1, n)
            IN [applied.mem EXCEPT
                  !.steps = Append(@, Step(col + 1, newState.at,
                                     "Applied " \o join(applied.gateDescriptions, 1)))]
       ELSE mem

\* the body of the column loop for one column
simulateColumnRef(mem, n, circuit, col) ==
  LET gatesApplied == gatesInColumn(n, circuit, col, 0)
  IN IF gatesApplied # << >>
       THEN LET prevState == jsonCloneRef(mem, mem.steps[Len(mem.steps)].state)
                newState == jsonCloneRef(prevState.mem, prevState.at)
                applied == applyGatesRef(newState.mem, newState.at, << >>,
                                         gatesApplied, 1, n)
            IN [applied.mem EXCEPT
                  !.steps = Append(@, Step(Len(@), newState.at,
                                     "Applied " \o join(applied.gateDescriptions, 1)))]
       ELSE mem

\* a steps array kept from call to call
initialStepsRef_kept(mem, n, initialStates) ==
  LET initialState == createInitialStateRef(mem, n, initialStates)
  IN [initialState.mem EXCEPT
        !.steps = Append(@, Step(0, initialState.at, "Initial state"))]

\* const initialState = createInitialState(...); const steps = [{ step: 0, ... }]
initialStepsRef(mem, n, initialStates) ==
  LET initialState == createInitialStateRef(mem, n, initialStates)
  IN [initialState.mem EXCEPT
        !.steps = << Step(0, initialState.at, "Initial state") >>]

(***************************************************************************)
(* State: the inputs of one evaluation and what it returns (App), and the  *)
(* props of the analysis panel with what it computes from them             *)
(* (DensityMatrixVisualizer).                                              *)
(***************************************************************************)
VARIABLES numQubits, circuit, initialStates, outcome, stateData, view, traced,
          memory, emitted,
          selectedGate, useQiskit, isLoading, error, simulationResults,
          currentStep, request

\* the App state besides the circuit, its qubit count and its initial states
appVars == << selectedGate, useQiskit, isLoading, error, simulationResults,
             currentStep, request >>

vars == << numQubits, circuit, initialStates, outcome, stateData, view, traced,
           memory, emitted, appVars >>

Cells(rows) == (0..(rows - 1)) \X (0..(maxDepth - 1))

\* the circuit of `rows` rows holding the gates f on the cells of its domain
CircuitOf(rows, f) ==
  [row \in 0..(rows - 1) |-> [col \in 0..(maxDepth - 1) |->
     [gate |-> IF << row, col >> \in DOMAIN f THEN f[<< row, col >>] ELSE NullGate]]]

\* the circuits of `rows` rows with at most MaxGates placements
Circuits(rows) ==
  UNION { { CircuitOf(rows, f) : f \in [P -> EvaluatedGates] } :
          P \in { Q \in SUBSET Cells(rows) : Cardinality(Q) <= MaxGates } }

\* { value, phase } entries as initializeCircuit and InitialStateControls make them
InitialStatesOf(len) ==
  [ (0..(len - 1)) -> { [value |-> "0", phase |-> 0], [value |-> "1", phase |-> 0] } ]

NotRun == [kind |-> "none", steps |-> << >>]
NoView == [shown |-> FALSE, densityMatrix |-> << >>,
           expectationValues |-> << >>, firstQubitEntanglement |-> Zero]
NotTraced == [done |-> FALSE, traceOutQubits |-> << >>, reducedMatrix |-> << >>,
              entropy |-> Zero]
\* no array allocated, no call in progress, no evaluation made
NoMemory == [arr |-> << >>, obj |-> << >>, steps |-> << >>, col |-> -1,
             runs |-> << >>]
NotEmitted == [kind |-> "none", emitter |-> "", lines |-> << >>]
\* null of simulationResults: no history
Null == << >>
\* null of error
NoError == ""
NoRequest == [pending |-> FALSE, numQubits |-> 0, initialStates |-> << >>,
              gates |-> << >>]

\* the useState initial values of App (part of every Init that does not
\* explore the App)
AppMounted ==
  /\ selectedGate = NullGate
  /\ useQiskit = FALSE
  /\ isLoading = FALSE
  /\ error = NoError
  /\ simulationResults = Null
  /\ currentStep = 0
  /\ request = NoRequest

(***************************************************************************)
(* Spec: evaluations of well-formed inputs (as many rows and initial       *)
(* values as qubits), the shapes the editor keeps.                         *)
(***************************************************************************)
Init ==
  /\ numQubits \in 1..MaxQubits
  /\ circuit \in Circuits(numQubits)
  /\ initialStates \in InitialStatesOf(numQubits)
  /\ outcome = NotRun
  /\ stateData = << >>
  /\ view = NoView
  /\ traced = NotTraced
  /\ memory = NoMemory
  /\ emitted = NotEmitted
  /\ AppMounted

\* runSimulation, local branch: the evaluation of the circuit
Simulate ==
  /\ outcome.kind = "none"
  /\ outcome' = simulateCircuit(numQubits, circuit, initialStates)
  /\ UNCHANGED << numQubits, circuit, initialStates, stateData, view, traced,
                  memory, emitted, appVars >>

Next == Simulate

Spec == Init /\ [][Next]_vars

(***************************************************************************)
(* SpecConfig: evaluations of inputs whose row count or initial-state      *)
(* count may differ from the qubit count.                                  *)
(***************************************************************************)
ConfigInit ==
  /\ numQubits \in 1..MaxQubits
  /\ \E rows \in 0..(MaxQubits + 1) : circuit \in Circuits(rows)
  /\ \E len \in 0..(MaxQubits + 1) : initialStates \in InitialStatesOf(len)
  /\ outcome = NotRun
  /\ stateData = << >>
  /\ view = NoView
  /\ traced = NotTraced
  /\ memory = NoMemory
  /\ emitted = NotEmitted
  /\ AppMounted

SpecConfig == ConfigInit /\ [][Next]_vars

(***************************************************************************)
(* SpecAnalysis: the analysis panel on every state a history can hold and  *)
(* on a state vector answered by a remote run.                             *)
(***************************************************************************)
StatesOf(result) == { result.steps[j].state : j \in 1..Len(result.steps) }

HistoryStates(n) ==
  UNION { StatesOf(simulateCircuit(n, c, init)) :
          c \in Circuits(n), init \in InitialStatesOf(n) }

\* a state vector a remote run may answer with: (|0..0> + |1..1>) / sqrt2
remoteStatevector(n) ==
  [i \in 0..(Pow2(n) - 1) |->
     IF i = 0 \/ i = Pow2(n) - 1 THEN Cx(InvSqrt2, Zero) ELSE CZero]

\* another one, with a relative phase: (|0..0> + i|1..1>) / sqrt2
remoteStatevectorPhase(n) ==
  [i \in 0..(Pow2(n) - 1) |->
     IF i = 0 THEN Cx(InvSqrt2, Zero)
     ELSE IF i = Pow2(n) - 1 THEN Cx(Zero, InvSqrt2) ELSE CZero]

AnalysisInit ==
  /\ numQubits \in 1..MaxQubits
  /\ stateData \in HistoryStates(numQubits)
                     \cup { remoteStatevector(numQubits),
                            remoteStatevectorPhase(numQubits) }
  /\ circuit = << >>
  /\ initialStates = << >>
  /\ outcome = NotRun
  /\ view = NoView
  /\ traced = NotTraced
  /\ memory = NoMemory
  /\ emitted = NotEmitted
  /\ AppMounted

\* one render of the panel
Render ==
  /\ ~view.shown
  /\ view' = DensityMatrixVisualizer(stateData, numQubits)
  /\ UNCHANGED << numQubits, circuit, initialStates, outcome, stateData, traced,
                  memory, emitted, appVars >>

\* the non-empty proper subsets of the qubits, as ascending arrays
TraceOutChoices(n) ==
  { SetToSeq(S) : S \in { X \in SUBSET (0..(n - 1)) : X # {} /\ X # 0..(n - 1) } }

\* the partial trace of the density matrix over T and the entropy of the result
PartialTrace(T) ==
  /\ view.shown
  /\ ~traced.done
  /\ LET reduced == calculatePartialTrace(view.densityMatrix, numQubits, T)
     IN traced' = [done |-> TRUE, traceOutQubits |-> T, reducedMatrix |-> reduced,
                   entropy |-> calculateVonNeumannEntropy(reduced)]
  /\ UNCHANGED << numQubits, circuit, initialStates, outcome, stateData, view,
                  memory, emitted, appVars >>

AnalysisNext ==
  \/ Render
  \/ \E T \in TraceOutChoices(numQubits) : PartialTrace(T)

SpecAnalysis == AnalysisInit /\ [][AnalysisNext]_vars

(***************************************************************************)
(* SpecEmit: the three text emitters on circuits of the data model: the    *)
(* single-qubit, control+target and measurement cells the palette makes,   *)
(* control-only and target-only cells of a pair, and cells whose id no     *)
(* emitter knows.                                                          *)
(***************************************************************************)
EmitGates ==
  { Gate("h", "H", FALSE, FALSE), Gate("measure", "M", FALSE, FALSE),
    Gate("cp", "CP", TRUE, TRUE),
    Gate("cx", "CX", TRUE, FALSE), Gate("cx", "CX", FALSE, TRUE),
    Gate("rx", "RX", FALSE, FALSE), Gate("crz", "CRZ", TRUE, TRUE) }

\* the circuits of `rows` rows with at most `most` placements of `gates`
CircuitsOf(rows, gates, most) ==
  UNION { { CircuitOf(rows, f) : f \in [P -> gates] } :
          P \in { Q \in SUBSET Cells(rows) : Cardinality(Q) <= most } }

EmitInit ==
  /\ numQubits \in 1..MaxQubits
  /\ circuit \in CircuitsOf(numQubits, EmitGates, MaxGates + 1)
  /\ initialStates \in InitialStatesOf(numQubits)
  /\ outcome = NotRun
  /\ stateData = << >>
  /\ view = NoView
  /\ traced = NotTraced
  /\ memory = NoMemory
  /\ emitted = NotEmitted
  /\ AppMounted

ConvertToOpenQASM ==
  /\ emitted.kind = "none"
  /\ emitted' = convertToOpenQASM(circuit, numQubits)
  /\ UNCHANGED << numQubits, circuit, initialStates, outcome, stateData, view,
                  traced, memory, appVars >>

ConvertToQiskitPython ==
  /\ emitted.kind = "none"
  /\ emitted' = convertToQiskitPython(circuit, numQubits)
  /\ UNCHANGED << numQubits, circuit, initialStates, outcome, stateData, view,
                  traced, memory, appVars >>

GenerateQiskitCode ==
  /\ emitted.kind = "none"
  /\ emitted' = generateQiskitCode(circuit, numQubits, initialStates)
  /\ UNCHANGED << numQubits, circuit, initialStates, outcome, stateData, view,
                  traced, memory, appVars >>

EmitNext ==
  \/ ConvertToOpenQASM
  \/ ConvertToQiskitPython
  \/ GenerateQiskitCode

SpecEmit == EmitInit /\ [][EmitNext]_vars

(***************************************************************************)
(* SpecApp: the App under its UI operations: palette selection, cell       *)
(* click, gate removal, clear, initial-state change, qubit-count change,   *)
(* the remote-execution switch, run (local, or remote with the response    *)
(* arriving later) and the step buttons.  The states qiskitCode,           *)
(* qiskitResults, qiskitBackends and selectedBackend, which no handler     *)
(* reads back, are left out.                                               *)
(***************************************************************************)
\* the palette gates offered to the explored App
AppGates == { g \in gateCategories : g.id \in {"h", "x", "cx"} }

\* the state vectors a successful response carries
RemoteStatevectors(n) == { remoteStatevector(n), remoteStatevectorPhase(n) }

\* what the service answers: a failure (non-success status or network
\* failure), a result without statevector, a result with one
Responses(n) ==
  { [ok |-> FALSE, statevector |-> << >>], [ok |-> TRUE, statevector |-> << >>] }
    \cup { [ok |-> TRUE, statevector |-> sv] : sv \in RemoteStatevectors(n) }

EmptyCircuit(n) == CircuitOf(n, << >>)
DefaultInitialStates(n) == [i \in 0..(n - 1) |-> [value |-> "0", phase |-> 0]]

\* the App after mount and its first effect, for a qubit count of the select
AppInit ==
  /\ numQubits \in 1..MaxQubits
  /\ circuit = EmptyCircuit(numQubits)
  /\ initialStates = DefaultInitialStates(numQubits)
  /\ outcome = NotRun
  /\ stateData = << >>
  /\ view = NoView
  /\ traced = NotTraced
  /\ memory = NoMemory
  /\ emitted = NotEmitted
  /\ AppMounted

notApp == << outcome, stateData, view, traced, memory, emitted >>

handleGateSelect(gate) ==
  /\ selectedGate' = gate
  /\ UNCHANGED << numQubits, circuit, initialStates, useQiskit, isLoading, error,
                  simulationResults, currentStep, request, notApp >>

\* handleCellClick with a gate selected: placeGate(row, col, selectedGate).
\* At most MaxGates cells are filled.
handleCellClick(row, col) ==
  /\ selectedGate # NullGate
  /\ Cardinality({ cell \in Cells(numQubits) :
                     circuit[cell[1]][cell[2]].gate # NullGate }
                 \cup { << row, col >> }) <= MaxGates
  /\ circuit' = [circuit EXCEPT ![row][col] = [gate |-> selectedGate]]
  /\ simulationResults' = Null
  /\ UNCHANGED << numQubits, initialStates, selectedGate, useQiskit, isLoading,
                  error, currentStep, request, notApp >>

\* the remove button of a filled cell
removeGate(row, col) ==
  /\ circuit[row][col].gate # NullGate
  /\ circuit' = [circuit EXCEPT ![row][col] = [gate |-> NullGate]]
  /\ simulationResults' = Null
  /\ UNCHANGED << numQubits, initialStates, selectedGate, useQiskit, isLoading,
                  error, currentStep, request, notApp >>

\* initializeCircuit for n qubits
initializeCircuit(n) ==
  /\ circuit' = EmptyCircuit(n)
  /\ initialStates' = DefaultInitialStates(n)
  /\ simulationResults' = Null
  /\ currentStep' = 0

\* the Clear button, disabled while loading
clearCircuit ==
  /\ ~isLoading
  /\ initializeCircuit(numQubits)
  /\ UNCHANGED << numQubits, selectedGate, useQiskit, isLoading, error, request,
                  notApp >>

\* the qubit select: setNumQubits, then the effect runs initializeCircuit
setNumQubits(n) ==
  /\ n # numQubits
  /\ numQubits' = n
  /\ initializeCircuit(n)
  /\ UNCHANGED << selectedGate, useQiskit, isLoading, error, request, notApp >>

\* the |0> / |1> radio of a qubit
updateInitialState(qubitIndex, value) ==
  /\ initialStates' =
       [initialStates EXCEPT ![qubitIndex] = [initialStates[qubitIndex] EXCEPT
                                                !.value = value]]
  /\ simulationResults' = Null
  /\ UNCHANGED << numQubits, circuit, selectedGate, useQiskit, isLoading, error,
                  currentStep, request, notApp >>

\* the remote-execution checkbox, disabled while loading
setUseQiskit(checked) ==
  /\ ~isLoading
  /\ useQiskit' = checked
  /\ UNCHANGED << numQubits, circuit, initialStates, selectedGate, isLoading,
                  error, simulationResults, currentStep, request, notApp >>

\* the Run button (disabled while loading), up to the await of the remote
\* call or to the end of the local branch
runSimulation ==
  /\ ~isLoading
  /\ error' = IF useQiskit /\ emitThrows(circuit, numQubits)
                THEN "Failed to run Qiskit simulation" ELSE NoError
  /\ IF useQiskit
       THEN /\ IF emitThrows(circuit, numQubits)
                 THEN UNCHANGED << isLoading, request >>
                 ELSE /\ isLoading' = TRUE
                      /\ request' = convertToQiskitCircuit(circuit, numQubits,
                                                           initialStates)
            /\ UNCHANGED << simulationResults, currentStep >>
       ELSE LET localResults == simulateCircuit(numQubits, circuit, initialStates)
            IN /\ IF localResults.kind = "history"
                    THEN /\ simulationResults' = localResults.steps
                         /\ currentStep' = 0
                    ELSE UNCHANGED << simulationResults, currentStep >>
               /\ UNCHANGED << isLoading, request >>
  /\ UNCHANGED << numQubits, circuit, initialStates, selectedGate, useQiskit,
                  notApp >>

\* a continuation whose finally block does not clear the loading flag
remoteResponse_noFinally(results) ==
  /\ request.pending
  /\ IF results.ok
       THEN IF results.statevector # << >>
              THEN /\ simulationResults' =
                        << Step(0, results.statevector, "Qiskit simulation result") >>
                   /\ currentStep' = 0
              ELSE UNCHANGED << simulationResults, currentStep >>
       ELSE /\ simulationResults' =
                 << Step(0, mockQiskitSimulation(request),
                         "Mock Qiskit simulation result") >>
            /\ currentStep' = 0
  /\ request' = NoRequest
  /\ UNCHANGED << numQubits, circuit, initialStates, selectedGate, useQiskit,
                  isLoading, error, notApp >>

\* the rest of runSimulation once the remote call has resolved or rejected
remoteResponse(results) ==
  /\ request.pending
  /\ IF results.ok
       THEN IF results.statevector # << >>
              THEN /\ simulationResults' =
                        << Step(0, results.statevector, "Qiskit simulation result") >>
                   /\ currentStep' = 0
              ELSE UNCHANGED << simulationResults, currentStep >>
       ELSE /\ simulationResults' =
                 << Step(0, mockQiskitSimulation(request),
                         "Mock Qiskit simulation result") >>
            /\ currentStep' = 0
  /\ isLoading' = FALSE
  /\ request' = NoRequest
  /\ UNCHANGED << numQubits, circuit, initialStates, selectedGate, useQiskit,
                  error, notApp >>

\* the step buttons, shown with results, disabled at the ends and while loading
onStepBack ==
  /\ simulationResults # Null
  /\ ~(currentStep = 0 \/ isLoading)
  /\ currentStep' = IF currentStep - 1 > 0 THEN currentStep - 1 ELSE 0
  /\ UNCHANGED << numQubits, circuit, initialStates, selectedGate, useQiskit,
                  isLoading, error, simulationResults, request, notApp >>

\* a forward button that is never disabled and does not clamp
onStepForward_unbounded ==
  /\ simulationResults # Null
  /\ ~isLoading
  /\ currentStep' = currentStep + 1
  /\ UNCHANGED << numQubits, circuit, initialStates, selectedGate, useQiskit,
                  isLoading, error, simulationResults, request, notApp >>

onStepForward ==
  /\ simulationResults # Null
  /\ ~(currentStep = Len(simulationResults) - 1 \/ isLoading)
  /\ currentStep' = IF Len(simulationResults) - 1 < currentStep + 1
                      THEN Len(simulationResults) - 1 ELSE currentStep + 1
  /\ UNCHANGED << numQubits, circuit, initialStates, selectedGate, useQiskit,
                  isLoading, error, simulationResults, request, notApp >>

AppNext ==
  \/ \E gate \in AppGates : handleGateSelect(gate)
  \/ \E row \in 0..(numQubits - 1), col \in 0..(maxDepth - 1) : handleCellClick(row, col)
  \/ \E row \in 0..(numQubits - 1), col \in 0..(maxDepth - 1) : removeGate(row, col)
  \/ clearCircuit
  \/ \E n \in 1..MaxQubits : setNumQubits(n)
  \/ \E qubitIndex \in 0..(numQubits - 1), value \in {"0", "1"} :
        updateInitialState(qubitIndex, value)
  \/ \E checked \in BOOLEAN : setUseQiskit(checked)
  \/ runSimulation
  \/ \E results \in Responses(request.numQubits) : remoteResponse(results)
  \/ onStepBack
  \/ onStepForward

SpecApp == AppInit /\ [][AppNext]_vars

(***************************************************************************)
(* SpecHistory: calls of simulateCircuit followed through memory, column   *)
(* by column, on circuits of up to MaxGates + 1 placements; the same       *)
(* circuit and initial states are evaluated up to MaxRuns times.           *)
(***************************************************************************)
\* the number of evaluations of one circuit
MaxRuns == 2

\* a gate that is applied and a gate that leaves the state alone
HistoryGates ==
  { g \in gateCategories : g.id \in {"h", "measure"} }

HistoryInit ==
  /\ numQubits \in 1..MaxQubits
  /\ circuit \in CircuitsOf(numQubits, HistoryGates, MaxGates + 1)
  /\ initialStates \in InitialStatesOf(numQubits)
  /\ outcome = NotRun
  /\ stateData = << >>
  /\ view = NoView
  /\ traced = NotTraced
  /\ memory = NoMemory
  /\ emitted = NotEmitted
  /\ AppMounted

notMemory == << numQubits, circuit, initialStates, outcome, stateData, view,
                traced, emitted, appVars >>

\* simulateCircuit up to the column loop: the initial step, and the return
\* at once when the circuit has no gate
SimulateCall ==
  /\ memory.col = -1
  /\ Len(memory.runs) < MaxRuns
  /\ LET begun == initialStepsRef(memory, numQubits, initialStates)
     IN memory' = IF hasAnyGates(numQubits, circuit, 0) = "false"
                    THEN [begun EXCEPT !.runs = Append(@, begun.steps)]
                    ELSE [begun EXCEPT !.col = 0]
  /\ UNCHANGED notMemory

\* one turn of the column loop
SimulateColumn ==
  /\ memory.col \in 0..(maxDepth - 1)
  /\ memory' = [simulateColumnRef(memory, numQubits, circuit, memory.col)
                  EXCEPT !.col = memory.col + 1]
  /\ UNCHANGED notMemory

\* return steps
SimulateReturn ==
  /\ memory.col = maxDepth
  /\ memory' = [memory EXCEPT !.runs = Append(@, memory.steps), !.col = -1]
  /\ UNCHANGED notMemory

HistoryNext ==
  \/ SimulateCall
  \/ SimulateColumn
  \/ SimulateReturn

SpecHistory == HistoryInit /\ [][HistoryNext]_vars

(***************************************************************************)
(* SpecStepper: evaluations of circuits holding the placements the         *)
(* evaluator has no matrix for (measure, two-qubit cells as the palette    *)
(* makes them and as the control and target halves of a pair, an           *)
(* unrecognized id) next to Hadamard, up to MaxGates + 1 placements, from  *)
(* the initial states initializeCircuit sets.                              *)
(***************************************************************************)
StepperGates ==
  { Gate("h", "H", FALSE, FALSE), Gate("measure", "M", FALSE, FALSE),
    Gate("cx", "CX", TRUE, TRUE),
    Gate("cx", "CX", TRUE, FALSE), Gate("cx", "CX", FALSE, TRUE),
    Gate("rx", "RX", FALSE, FALSE) }

StepperInit ==
  /\ numQubits \in 1..MaxQubits
  /\ circuit \in CircuitsOf(numQubits, StepperGates, MaxGates + 1)
  /\ initialStates = DefaultInitialStates(numQubits)
  /\ outcome = NotRun
  /\ stateData = << >>
  /\ view = NoView
  /\ traced = NotTraced
  /\ memory = NoMemory
  /\ emitted = NotEmitted
  /\ AppMounted

SpecStepper == StepperInit /\ [][Next]_vars

(***************************************************************************)
(* Vocabulary of the properties.                                           *)
(***************************************************************************)
\* the sum of the numbers f[x], x in S
RECURSIVE SumNum(_, _)
SumNum(f, S) ==
  IF S = {} THEN Zero
  ELSE LET x == CHOOSE y \in S : TRUE
       IN NumAdd(f[x], SumNum(f, S \ {x}))

\* |re|^2 + |im|^2 of every amplitude of a state
Probabilities(state) ==
  [i \in DOMAIN state |->
     NumAdd(NumMul(state[i].re, state[i].re), NumMul(state[i].im, state[i].im))]

NormSquared(state) == SumNum(Probabilities(state), DOMAIN state)

\* the sum of 2^i over the qubits i whose initial value is '1'
RECURSIVE SumBits(_, _)
SumBits(init, S) ==
  IF S = {} THEN 0
  ELSE LET i == CHOOSE y \in S : TRUE
       IN (IF init[i].value = "1" THEN 2 ^ i ELSE 0) + SumBits(init, S \ {i})

BasisIndexOf(init) == SumBits(init, DOMAIN init)

\* the basis state |b> of n qubits
BasisVector(n, b) == [i \in 0..(2 ^ n - 1) |-> IF i = b THEN COne ELSE CZero]

Placements(c) ==
  { cell \in Cells(Length(c)) : c[cell[1]][cell[2]].gate # NullGate }

\* the circuit holds exactly one placement: gate id on row q
OnlyGate(c, id, q) ==
  \E col \in 0..(maxDepth - 1) :
     /\ Placements(c) = { << q, col >> }
     /\ c[q][col].gate.id = id

Evaluated == outcome.kind = "history"

\* C1: an evaluation of a circuit with no placement in any cell returns a
\* history of exactly one step, with index 0, description 'Initial state' and
\* the amplitudes of the initial basis state built by createInitialState.
C1_EmptyCircuitOneStep ==
  (outcome.kind # "none" /\ Placements(circuit) = {}) =>
     /\ outcome.kind = "history"
     /\ Len(outcome.steps) = 1
     /\ outcome.steps[1].step = 0
     /\ outcome.steps[1].description = "Initial state"
     /\ outcome.steps[1].state = createInitialState(numQubits, initialStates)

C1_Witness ==
  /\ Evaluated
  /\ Placements(circuit) = {}
  /\ numQubits = 2
  /\ initialStates[1].value = "1"

C3_XFlipsBasis ==
  \A q \in 0..(numQubits - 1) :
     (Evaluated /\ OnlyGate(circuit, "x", q)) =>
        /\ Len(outcome.steps) = 2
        /\ outcome.steps[2].state =
             BasisVector(numQubits, FlipBit(BasisIndexOf(initialStates), q))

C3_Witness ==
  /\ Evaluated
  /\ numQubits = 2
  /\ BasisIndexOf(initialStates) = 0
  /\ OnlyGate(circuit, "x", 0)
  /\ outcome.steps[2].state[1] = COne

\* C4: Hadamard on qubit q of a basis state b whose bit q is 0 gives
\* amplitude 1/sqrt2 with zero imaginary part at b and at b with bit q set,
\* and 0 elsewhere.
C4_HadamardOnZero ==
  \A q \in 0..(numQubits - 1) :
     (Evaluated /\ OnlyGate(circuit, "h", q)
                /\ Bit(BasisIndexOf(initialStates), q) = 0) =>
        LET b == BasisIndexOf(initialStates)
        IN /\ Len(outcome.steps) = 2
           /\ outcome.steps[2].state =
                [i \in 0..(2 ^ numQubits - 1) |->
                   IF i = b \/ i = b + 2 ^ q THEN Cx(InvSqrt2, Zero) ELSE CZero]

C4_Witness ==
  /\ Evaluated
  /\ numQubits = 1
  /\ BasisIndexOf(initialStates) = 0
  /\ OnlyGate(circuit, "h", 0)
  /\ outcome.steps[2].state = (0 :> Cx(InvSqrt2, Zero) @@ 1 :> Cx(InvSqrt2, Zero))

\* C9: createInitialState returns 2^n amplitudes of which exactly one is
\* 1+0i, at the index that ORs 1<<i over the qubits whose initial value is
\* '1', and every other is 0+0i.
C9_InitialState ==
  Evaluated =>
     LET state == outcome.steps[1].state
     IN /\ DOMAIN state = 0..(2 ^ numQubits - 1)
        /\ Cardinality({ i \in DOMAIN state : state[i] = COne }) = 1
        /\ state[BasisIndexOf(initialStates)] = COne
        /\ \A i \in DOMAIN state : i # BasisIndexOf(initialStates) => state[i] = CZero

C9_Witness ==
  /\ Evaluated
  /\ numQubits = 2
  /\ initialStates[0].value = "0"
  /\ initialStates[1].value = "1"
  /\ outcome.steps[1].state[2] = COne

(***************************************************************************)
(* Properties of the analysis panel (SpecAnalysis).                        *)
(***************************************************************************)
\* the sum of the diagonal entries of a square matrix
TraceRe(m) == SumNum([i \in DOMAIN m |-> m[i][i].re], DOMAIN m)
TraceIm(m) == SumNum([i \in DOMAIN m |-> m[i][i].im], DOMAIN m)

IsBasisState(state) ==
  \E b \in DOMAIN state : state = [i \in DOMAIN state |-> IF i = b THEN COne ELSE CZero]

\* the probability that qubit q reads v in a state
ProbabilityOf(state, q, v) ==
  SumNum(Probabilities(state), { i \in DOMAIN state : Bit(i, q) = v })

\* C5: for the density matrix of a normalized state of n qubits and a
\* non-empty proper subset T of the qubits, the partial trace over T has the
\* trace of the density matrix, 1.
C5_PartialTracePreservesTrace ==
  traced.done =>
     /\ TraceRe(traced.reducedMatrix) = TraceRe(view.densityMatrix)
     /\ TraceIm(traced.reducedMatrix) = TraceIm(view.densityMatrix)
     /\ TraceRe(traced.reducedMatrix) = One
     /\ TraceIm(traced.reducedMatrix) = Zero

\* a traced-out qubit in superposition: the density matrix has coherences
\* between indices that differ on the traced bit
C5_Witness ==
  /\ traced.done
  /\ numQubits = 2
  /\ traced.traceOutQubits = << 0 >>
  /\ view.densityMatrix[0][1] = Cx(Half, Zero)
  /\ traced.reducedMatrix[0][0] = COne

\* C6: the von Neumann entropy of the density matrix [[1,0],[0,0]] of a
\* single qubit in |0>, and the entanglement entropy of qubit 0 of any
\* computational basis state, is the number 0.
C6_PureEntropyZero ==
  /\ (traced.done /\ traced.reducedMatrix = calculateDensityMatrix(BasisVector(1, 0)))
        => traced.entropy = Zero
  /\ (view.shown /\ IsBasisState(stateData)) => view.firstQubitEntanglement = Zero

\* C7: the von Neumann entropy of the maximally mixed reduced density
\* matrix diag(0.5, 0.5) is 1.
C7_MixedEntropyOne ==
  (traced.done /\ traced.reducedMatrix =
      Matrix(Cx(Half, Zero), CZero, CZero, Cx(Half, Zero)))
    => traced.entropy = One

\* C8: for every qubit q of every state, calculateExpectationValues gives
\* P(bit q = 0) - P(bit q = 1), a value in [-1, 1]; +1 on a basis state with
\* bit q = 0 and -1 with bit q = 1.
C8_ExpectationZ ==
  view.shown =>
     /\ DOMAIN view.expectationValues = 0..(numQubits - 1)
     /\ \A q \in 0..(numQubits - 1) :
          LET z == view.expectationValues[q].z
          IN /\ view.expectationValues[q].qubit = q
             /\ z = NumSub(ProbabilityOf(stateData, q, 0), ProbabilityOf(stateData, q, 1))
             /\ NumLeq(NumNeg(One), z)
             /\ NumLeq(z, One)
             /\ \A b \in DOMAIN stateData :
                  stateData = BasisVector(numQubits, b) =>
                     z = (IF Bit(b, q) = 0 THEN One ELSE NumNeg(One))

C8_Witness ==
  /\ view.shown
  /\ numQubits = 2
  /\ stateData = BasisVector(2, 2)
  /\ view.expectationValues[0].z = One
  /\ view.expectationValues[1].z = NumNeg(One)

(***************************************************************************)
(* Property of ill-shaped inputs (SpecConfig).                             *)
(***************************************************************************)
\* C10: an evaluation whose initial-state array length differs from the
\* qubit count, or whose circuit row count differs from it, fails with a
\* ConfigurationError and returns no history.
C10_ConfigurationError ==
  (outcome.kind # "none"
     /\ (Length(initialStates) # numQubits \/ Length(circuit) # numQubits))
    => outcome.kind = "ConfigurationError"

(***************************************************************************)
(* Properties of gate application (Spec).                                  *)
(***************************************************************************)
\* the matrix that the evaluator's switch hands to applySingleQubitGate
MatrixOf(id) ==
  CASE id = "h" -> hadamardMatrix
    [] id = "x" -> xMatrix
    [] id = "y" -> yMatrix
    [] id = "z" -> zMatrix
    [] id = "s" -> sMatrix
    [] id = "t" -> tMatrix

\* the state in which row 0 of M produces the bit=0 amplitude of each pair
\* and row 1 the bit=1 amplitude, both from the pre-gate values
RowConvention(M, old, q) ==
  [i \in DOMAIN old |->
     IF Bit(i, q) = 0
       THEN complexAdd(complexMultiply(M[0][0], old[i]),
                       complexMultiply(M[0][1], old[FlipBit(i, q)]))
       ELSE complexAdd(complexMultiply(M[1][0], old[FlipBit(i, q)]),
                       complexMultiply(M[1][1], old[i]))]

\* C11: applySingleQubitGate updates each pair (i0, i1) of indices that
\* differ only in bit q from the pre-gate values, with
\* new[i0] = M[0][0]*old[i0] + M[0][1]*old[i1] and
\* new[i1] = M[1][0]*old[i0] + M[1][1]*old[i1], for every gate matrix M,
\* symmetric or not.
C11_RowConvention ==
  \A q \in 0..(numQubits - 1) : \A id \in SingleQubitIds :
     (Evaluated /\ OnlyGate(circuit, id, q)) =>
        outcome.steps[2].state =
          RowConvention(MatrixOf(id), outcome.steps[1].state, q)

(***************************************************************************)
(* Property of the density matrix (SpecAnalysis).                          *)
(***************************************************************************)
Conjugate(z) == Cx(z.re, NumNeg(z.im))

\* C12: calculateDensityMatrix(psi) is a square matrix of side psi.length
\* with rho[i][j] = psi[i] * conjugate(psi[j]); it is Hermitian and its
\* trace is the sum of |psi[i]|^2, which is 1 for a normalized psi.
C12_DensityMatrix ==
  view.shown =>
     LET rho == view.densityMatrix
         side == 0..(Length(stateData) - 1)
     IN /\ DOMAIN rho = side
        /\ \A i \in side : DOMAIN rho[i] = side
        /\ \A i, j \in side :
             /\ rho[i][j] = complexMultiply(stateData[i], Conjugate(stateData[j]))
             /\ rho[j][i] = Conjugate(rho[i][j])
        /\ TraceRe(rho) = NormSquared(stateData)
        /\ TraceIm(rho) = Zero
        /\ NormSquared(stateData) = One => TraceRe(rho) = One

\* amplitudes with an imaginary part and a complex off-diagonal entry
C12_Witness ==
  /\ view.shown
  /\ numQubits = 2
  /\ \E i \in DOMAIN stateData : stateData[i].im # Zero
  /\ \E i, j \in DOMAIN stateData :
        i # j /\ view.densityMatrix[i][j] # CZero
  /\ TraceRe(view.densityMatrix) = One

(***************************************************************************)
(* Properties of the text emitters (SpecEmit).                             *)
(***************************************************************************)
\* the row of the target a control cell is paired with: the lowest row of
\* its column holding a target cell with the same id (-1 when there is none)
TargetOf(c, n, cell) ==
  LET rows == { r \in 0..(n - 1) :
                  /\ c[r][cell[2]].gate # NullGate
                  /\ c[r][cell[2]].gate.target
                  /\ c[r][cell[2]].gate.id = c[cell[1]][cell[2]].gate.id }
  IN IF rows = {} THEN -1 ELSE CHOOSE r \in rows : \A r2 \in rows : r <= r2

\* the placements of a circuit as the emitters take them: a cell holding a
\* gate that is neither control nor target (single-qubit gate or
\* measurement), or a control cell with a target in its column (a two-qubit
\* gate, taken at its control row)
SingleCells(c) ==
  { cell \in Placements(c) : LET g == c[cell[1]][cell[2]].gate
                             IN ~g.control /\ ~g.target }
PairCells(c, n) ==
  { cell \in Placements(c) :
      c[cell[1]][cell[2]].gate.control /\ TargetOf(c, n, cell) >= 0 }

\* the OpenQASM instruction of a placement whose id OpenQASM has
QasmIds == SingleQubitIds \cup {"measure", "cx", "cz", "swap", "cp"}
QasmInstruction(c, n, cell) ==
  LET id == c[cell[1]][cell[2]].gate.id
      r == ToString(cell[1])
  IN CASE id \in SingleQubitIds -> id \o " q[" \o r \o "];"
       [] id = "measure" -> "measure q[" \o r \o "] -> c[" \o r \o "];"
       [] id = "cp" -> "cp(pi/4) q[" \o r \o "], q["
                         \o ToString(TargetOf(c, n, cell)) \o "];"
       [] OTHER -> id \o " q[" \o r \o "], q["
                      \o ToString(TargetOf(c, n, cell)) \o "];"

InstructionCells(c, n) ==
  { cell \in SingleCells(c) \cup PairCells(c, n) :
      c[cell[1]][cell[2]].gate.id \in QasmIds }

\* some occurrence of line a comes before some occurrence of line b
EmittedBefore(lines, a, b) ==
  \E i, j \in 1..Len(lines) : i < j /\ lines[i] = a /\ lines[j] = b

\* 1 for a single-qubit gate, 2 for a two-qubit gate, 3 for a measurement
KindRank(c, cell) ==
  IF c[cell[1]][cell[2]].gate.id = "measure" THEN 3
  ELSE IF c[cell[1]][cell[2]].gate.control THEN 2 ELSE 1

QasmEmitted == emitted.kind = "text" /\ emitted.emitter = "qasm"

\* C13 as stated: convertToOpenQASM emits the instructions in
\* column-then-row order: of two placements the one in the earlier column
\* comes first, and within one column the one on the lower row (a two-qubit
\* gate taken at its control row), whatever the kinds of the gates.
C13_ColumnThenRow ==
  QasmEmitted =>
    \A p1, p2 \in InstructionCells(circuit, numQubits) :
       LET a == QasmInstruction(circuit, numQubits, p1)
           b == QasmInstruction(circuit, numQubits, p2)
       IN (a # b /\ (p1[2] < p2[2] \/ (p1[2] = p2[2] /\ p1[1] < p2[1])))
            => EmittedBefore(emitted.lines, a, b)

\* C13 amended: convertToOpenQASM emits the instructions column by column;
\* within one column it emits the single-qubit gates in ascending row order,
\* then the two-qubit gates in ascending control row, then the measurements
\* in ascending row order.
C13_ColumnThenKindThenRow ==
  QasmEmitted =>
    \A p1, p2 \in InstructionCells(circuit, numQubits) :
       LET a == QasmInstruction(circuit, numQubits, p1)
           b == QasmInstruction(circuit, numQubits, p2)
           k1 == KindRank(circuit, p1)
           k2 == KindRank(circuit, p2)
       IN (a # b /\ (\/ p1[2] < p2[2]
                     \/ p1[2] = p2[2] /\ k1 < k2
                     \/ p1[2] = p2[2] /\ k1 = k2 /\ p1[1] < p2[1]))
            => EmittedBefore(emitted.lines, a, b)

\* a two-qubit gate on row 0 and a single-qubit gate on row 1 of column 0:
\* the single-qubit gate is emitted first
C13_Witness ==
  /\ QasmEmitted
  /\ numQubits = 2
  /\ circuit[0][0].gate.id = "cp"
  /\ circuit[1][0].gate.id = "h"
  /\ EmittedBefore(emitted.lines, "h q[1];", "cp(pi/4) q[0], q[0];")

\* the ids an emitter has an instruction for, for a cell of this shape
SupportedBy(e, gate) ==
  IF ~gate.control
    THEN gate.id \in SingleQubitIds \cup {"measure"}
    ELSE gate.id \in {"cx", "cz", "swap"} \cup (IF e = "qiskit" THEN {} ELSE {"cp"})

\* the comment line that names the gate of a placement
UnknownComment(e, c, n, cell) ==
  LET gate == c[cell[1]][cell[2]].gate
      mark == IF e = "qasm" THEN "// " ELSE "# "
  IN IF ~gate.control
       THEN mark \o "Unknown gate " \o gate.id \o " on qubit " \o ToString(cell[1])
       ELSE mark \o "Unknown controlled gate " \o gate.id \o " from "
              \o (IF e = "qiskit" THEN "qubit " ELSE "") \o ToString(cell[1])
              \o " to " \o ToString(TargetOf(c, n, cell))

\* the instruction line of a placement the emitter supports
InstructionLine(e, c, n, cell) ==
  LET gate == c[cell[1]][cell[2]].gate
      r == ToString(cell[1])
      t == ToString(TargetOf(c, n, cell))
  IN CASE e = "qasm" -> QasmInstruction(c, n, cell)
       [] e = "python" /\ gate.id = "measure" -> "circuit.measure(" \o r \o ", " \o r \o ")"
       [] e = "python" /\ gate.id = "cp" ->
            "circuit.cp(3.14159/4, " \o r \o ", " \o t \o ")  # pi/4"
       [] e = "python" /\ gate.control -> "circuit." \o gate.id \o "(" \o r \o ", " \o t \o ")"
       [] e = "python" -> "circuit." \o gate.id \o "(" \o r \o ")"
       [] e = "qiskit" /\ gate.control ->
            qiskitControlGate(gate.id, cell[1], TargetOf(c, n, cell))[1]
       [] e = "qiskit" -> qiskitGate(gate.id, cell[1])[1]

\* the text an emitter returns for a circuit
EmitterText(e, c, n, init) ==
  CASE e = "qasm" -> convertToOpenQASM(c, n)
    [] e = "python" -> convertToQiskitPython(c, n)
    [] e = "qiskit" -> generateQiskitCode(c, n, init)

NonBlank(lines) == SelectSeq(lines, LAMBDA l : l # "")

\* the circuit with one cell emptied
Without(c, cell) == [c EXCEPT ![cell[1]][cell[2]] = [gate |-> NullGate]]

\* seq with the element x put in at position k
InsertAt(seq, k, x) == SubSeq(seq, 1, k - 1) \o << x >> \o SubSeq(seq, k, Len(seq))

Lines(seq) == { seq[k] : k \in 1..Len(seq) }

\* C14: for a placement whose gate id the emitter does not support, each of
\* convertToOpenQASM, convertToQiskitPython and generateQiskitCode emits a
\* comment line naming that gate instead of an instruction and does not
\* throw; every other placement of the circuit is still emitted.  (A
\* placement is a cell that is neither control nor target, or a control cell
\* with a target in its column.)
C14_UnknownGateComment ==
  emitted.kind # "none" =>
    LET e == emitted.emitter
        cells == SingleCells(circuit) \cup PairCells(circuit, numQubits)
    IN /\ emitted.kind = "text"
       /\ \A cell \in cells :
            LET gate == circuit[cell[1]][cell[2]].gate
                comment == UnknownComment(e, circuit, numQubits, cell)
                rest == EmitterText(e, Without(circuit, cell), numQubits, initialStates)
            IN IF SupportedBy(e, gate)
                 THEN InstructionLine(e, circuit, numQubits, cell) \in Lines(emitted.lines)
                 ELSE /\ comment \in Lines(emitted.lines)
                      \* the text is that of the circuit without the placement,
                      \* with the one comment line put in (when no other
                      \* control cell takes this cell as its target)
                      /\ (\A other \in PairCells(circuit, numQubits) \ {cell} :
                             other[2] = cell[2] =>
                                TargetOf(circuit, numQubits, other) # cell[1])
                           => \E k \in 1..(Len(emitted.lines) + 1) :
                                 NonBlank(emitted.lines)
                                   = InsertAt(NonBlank(rest.lines), k, comment)

\* an unknown single-qubit id next to a Hadamard, and cp, for which
\* generateQiskitCode has no instruction
C14_Witness ==
  /\ emitted.kind = "text"
  /\ emitted.emitter = "qiskit"
  /\ numQubits = 2
  /\ circuit[0][0].gate.id = "cp"
  /\ circuit[1][1].gate.id = "rx"
  /\ "# Unknown controlled gate cp from qubit 0 to 0" \in Lines(emitted.lines)
  /\ "# Unknown gate rx on qubit 1" \in Lines(emitted.lines)

(***************************************************************************)
(* Properties of the App (SpecApp).                                        *)
(***************************************************************************)
\* the final state of the local engine for the App's circuit and initial states
LocalFinalState ==
  LET localResults == simulateCircuit(numQubits, circuit, initialStates).steps
  IN localResults[Len(localResults)].state

\* a remote run of the current circuit and initial states ends with the
\* fallback result installed
FallbackInstalled ==
  /\ request.pending
  /\ ~request'.pending
  /\ request = convertToQiskitCircuit(circuit, numQubits, initialStates)
  /\ simulationResults' =
       << Step(0, mockQiskitSimulation(request), "Mock Qiskit simulation result") >>

\* C15: when a remote run fails, runSimulation sets no error and the state
\* vector it stores as the result equals the final state simulateCircuit
\* computes for the same circuit and initial states.
C15_FallbackIsLocal ==
  [][FallbackInstalled =>
       /\ error' = NoError
       /\ simulationResults'[Len(simulationResults')].state = LocalFinalState]_vars

\* the response to a remote run arrives after the circuit or the initial
\* states have been edited (same qubit count, other gates or initial values)
ResponseAfterEdit ==
  /\ request.pending
  /\ ~request'.pending
  /\ request.numQubits = numQubits
  /\ request # convertToQiskitCircuit(circuit, numQubits, initialStates)

\* C18: after placeGate, removeGate, clearCircuit or updateInitialState the
\* displayed history is never one computed from the circuit or initial states
\* as they were before the edit: the response to a remote run that arrives
\* after an edit does not install its result.
C18_NoStaleHistory ==
  [][ResponseAfterEdit => simulationResults' = simulationResults]_vars

\* the two-qubit gates of the palette
TwoQubitIds == {"cx", "cz", "swap", "cp"}

\* the cells of the column of cell that hold the gate id of cell
SameGateInColumn(c, n, cell) ==
  { other \in Cells(n) :
      /\ other[2] = cell[2]
      /\ c[other[1]][other[2]].gate.id = c[cell[1]][cell[2]].gate.id }

\* cell is one half of a control/target pair: its gate id fills exactly two
\* cells of the column, one tagged control and the other tagged target
PairedCell(c, n, cell) ==
  LET same == SameGateInColumn(c, n, cell)
  IN /\ Cardinality(same) = 2
     /\ \E a, b \in same :
          /\ a # b
          /\ c[a[1]][a[2]].gate.control /\ ~c[a[1]][a[2]].gate.target
          /\ c[b[1]][b[2]].gate.target /\ ~c[b[1]][b[2]].gate.control

\* C19: in every circuit reachable through the editor operations, every
\* two-qubit gate (cx, cz, swap, cp) occupies exactly two cells of one column,
\* one tagged control and the other tagged target, with the same gate id.
C19_ControlTargetPairs ==
  \A cell \in Cells(numQubits) :
    circuit[cell[1]][cell[2]].gate.id \in TwoQubitIds
      => PairedCell(circuit, numQubits, cell)

(***************************************************************************)
(* Properties of the history in memory (SpecHistory).                      *)
(***************************************************************************)
\* the addresses of the amplitude objects of the array at address a
ObjectsOf(mem, a) == { mem.arr[a][i] : i \in DOMAIN mem.arr[a] }

\* the history as the caller reads it: every step with its amplitudes
HistoryValues(mem, steps) ==
  [j \in 1..Len(steps) |->
     Step(steps[j].step, At(mem, steps[j].state), steps[j].description)]

\* no two steps share an amplitude array or an amplitude object
NoSharedAmplitudes(mem, steps) ==
  \A j, k \in 1..Len(steps) :
    j # k => /\ steps[j].state # steps[k].state
             /\ ObjectsOf(mem, steps[j].state) \cap ObjectsOf(mem, steps[k].state) = {}

\* C16: each step of a history owns its amplitude snapshot: a turn of the
\* column loop (and the return) leaves the amplitudes of every step already
\* in the history as they were, step 0 included, and no two steps share an
\* amplitude array or an amplitude object.
C16_StepsOwnSnapshots ==
  [][memory.col >= 0 =>
       /\ \A j \in 1..Len(memory.steps) :
            /\ j <= Len(memory'.steps)
            /\ At(memory', memory'.steps[j].state) = At(memory, memory.steps[j].state)
       /\ NoSharedAmplitudes(memory', memory'.steps)]_vars

\* two columns have been applied and each changed the amplitudes
C16_Witness ==
  /\ memory.col = maxDepth
  /\ Len(memory.steps) = 3
  /\ \A j, k \in 1..3 :
       j # k => At(memory, memory.steps[j].state) # At(memory, memory.steps[k].state)

\* the completed evaluations read equal histories
EqualRuns(mem) ==
  \A r, s \in 1..Len(mem.runs) :
    HistoryValues(mem, mem.runs[r]) = HistoryValues(mem, mem.runs[s])

\* C17: simulateCircuit leaves its inputs unchanged (every cell of the
\* circuit, every entry of initialStates), the histories it returned earlier
\* read as before, and two evaluations of the same circuit and initial
\* states return equal histories.
C17_InputsUnchangedEqualRuns ==
  [][/\ circuit' = circuit
     /\ initialStates' = initialStates
     /\ \A r \in 1..Len(memory.runs) :
          /\ r <= Len(memory'.runs)
          /\ HistoryValues(memory', memory'.runs[r]) = HistoryValues(memory, memory.runs[r])
     /\ EqualRuns(memory')]_vars

\* a circuit with a gate has been evaluated twice
C17_Witness ==
  /\ Len(memory.runs) = 2
  /\ Len(memory.runs[2]) >= 2
  /\ Placements(circuit) # {}

\* the columns holding at least one placement, left to right
NonEmptyColumns(c, n) ==
  SetToSeq({ col \in 0..(maxDepth - 1) :
               \E row \in 0..(n - 1) : c[row][col].gate # NullGate })

\* the description of the step of column col
ColumnDescription(c, n, col) ==
  "Applied " \o join([g \in 1..Len(gatesInColumn(n, c, col, 0)) |->
                        gateDescription(gatesInColumn(n, c, col, 0)[g].qubit,
                                        gatesInColumn(n, c, col, 0)[g].gate)], 1)

\* C20: for a circuit with at least one placement the history returned has
\* exactly 1 + k steps, k the number of columns holding a placement; the
\* steps after the first are those of the non-empty columns from left to
\* right, and the step field of the j-th element (from 0) is j.
C20_OneStepPerNonEmptyColumn ==
  \A r \in 1..Len(memory.runs) :
    Placements(circuit) # {} =>
      LET steps == memory.runs[r]
          columns == NonEmptyColumns(circuit, numQubits)
      IN /\ Len(steps) = 1 + Len(columns)
         /\ steps[1].description = "Initial state"
         /\ \A j \in 1..Len(steps) : steps[j].step = j - 1
         /\ \A k \in 1..Len(columns) :
              steps[k + 1].description = ColumnDescription(circuit, numQubits, columns[k])

\* a history whose only step after the first is that of the second column
C20_Witness ==
  /\ Len(memory.runs) >= 1
  /\ NonEmptyColumns(circuit, numQubits) = << 1 >>
  /\ Len(memory.runs[1]) = 2

\* the per-gate description of the placement on row `row` of column `col`
PlacementDescription(c, row, col) ==
  LET gate == c[row][col].gate
  IN CASE gate.id = "h" -> "Hadamard (H) to qubit " \o ToString(row)
       [] gate.id = "measure" -> "Measurement on qubit " \o ToString(row)
       [] gate.id \in SingleQubitIds \ {"h"} -> gate.name \o " gate to qubit " \o ToString(row)
       [] OTHER -> gate.name \o " gate to qubit " \o ToString(row)

\* the placements of column col from row `row` on, taken in ascending row
\* order: their descriptions, and the state with each executed gate applied
RECURSIVE RowsAscending(_, _, _, _, _)
RowsAscending(c, n, col, row, acc) ==
  IF row >= n THEN acc
  ELSE LET gate == c[row][col].gate
       IN IF gate = NullGate THEN RowsAscending(c, n, col, row + 1, acc)
          ELSE RowsAscending(c, n, col, row + 1,
                 [state |-> IF gate.id \in SingleQubitIds
                              THEN RowConvention(MatrixOf(gate.id), acc.state, row)
                              ELSE acc.state,
                  descriptions |-> Append(acc.descriptions,
                                          PlacementDescription(c, row, col))])

\* strs joined with ', '
RECURSIVE JoinedWithComma(_)
JoinedWithComma(strs) ==
  IF Len(strs) = 0 THEN ""
  ELSE IF Len(strs) = 1 THEN strs[1]
  ELSE strs[1] \o ", " \o JoinedWithComma(Tail(strs))

\* C21: columns are processed strictly left to right: the state of every
\* step j >= 1 is the state of step j-1 with the gates of the j-th non-empty
\* column applied one after another in ascending row order, and its
\* description is 'Applied ' followed by the per-gate descriptions in that
\* order joined with ', '.
C21_LeftToRightRowAscending ==
  \A r \in 1..Len(memory.runs) :
    LET steps == memory.runs[r]
        columns == NonEmptyColumns(circuit, numQubits)
    IN \A j \in 1..(Len(steps) - 1) :
         /\ j <= Len(columns)
         /\ LET expected == RowsAscending(circuit, numQubits, columns[j], 0,
                              [state |-> At(memory, steps[j].state),
                               descriptions |-> << >>])
            IN /\ At(memory, steps[j + 1].state) = expected.state
               /\ steps[j + 1].description
                    = "Applied " \o JoinedWithComma(expected.descriptions)

\* a returned history whose one step after the first has two placements
C21_Witness ==
  /\ Len(memory.runs) >= 1
  /\ Len(memory.runs[1]) = 2
  /\ \E col \in 0..(maxDepth - 1) :
       Cardinality({ cell \in Placements(circuit) : cell[2] = col }) = 2

(***************************************************************************)
(* Properties of the placements the evaluator does not execute             *)
(* (SpecStepper).                                                          *)
(***************************************************************************)
\* the rows of column col that hold a placement
RowsOf(c, n, col) == { row \in 0..(n - 1) : c[row][col].gate # NullGate }

\* no placement of column col has a matrix in the evaluator
NothingExecuted(c, n, col) ==
  \A row \in RowsOf(c, n, col) : c[row][col].gate.id \notin SingleQubitIds

\* C22: a column holding only measure, two-qubit or unrecognized placements
\* still emits a step; its description names each of these placements and
\* its amplitudes are those of the previous step.
C22_UnexecutedGatesKeepAmplitudes ==
  outcome.kind = "history" /\ Placements(circuit) # {} =>
    LET steps == outcome.steps
        columns == NonEmptyColumns(circuit, numQubits)
    IN /\ Len(steps) = 1 + Len(columns)
       /\ \A j \in 1..Len(columns) :
            NothingExecuted(circuit, numQubits, columns[j]) =>
              /\ steps[j + 1].state = steps[j].state
              /\ steps[j + 1].description =
                   "Applied " \o JoinedWithComma(
                     [k \in 1..Cardinality(RowsOf(circuit, numQubits, columns[j])) |->
                        PlacementDescription(circuit,
                          SetToSeq(RowsOf(circuit, numQubits, columns[j]))[k],
                          columns[j])])

\* a Hadamard column, then a column holding one placement that is not executed
C22_Witness ==
  /\ outcome.kind = "history"
  /\ Len(outcome.steps) = 3
  /\ \E row \in 0..(numQubits - 1) : circuit[row][0].gate.id = "h"
  /\ NothingExecuted(circuit, numQubits, 1)
  /\ outcome.steps[2].state # outcome.steps[1].state
  /\ outcome.steps[3].state = outcome.steps[2].state

\* the rows of column col holding the target half of a pair whose control
\* half is in the same column
TargetSideRows(c, n, col) ==
  { row \in RowsOf(c, n, col) :
      /\ c[row][col].gate.target /\ ~c[row][col].gate.control
      /\ \E other \in RowsOf(c, n, col) :
           /\ c[other][col].gate.control /\ ~c[other][col].gate.target
           /\ c[other][col].gate.id = c[row][col].gate.id }

\* C23: in a column holding a control/target pair the stepper collects the
\* control-side placement only: the step description has one entry for the
\* pair, that of the control row, and none for the target row.
C23_ControlSideOnly ==
  outcome.kind = "history" /\ Placements(circuit) # {} =>
    LET steps == outcome.steps
        columns == NonEmptyColumns(circuit, numQubits)
    IN \A j \in 1..Len(columns) :
         LET collected == SetToSeq(RowsOf(circuit, numQubits, columns[j])
                                     \ TargetSideRows(circuit, numQubits, columns[j]))
         IN /\ j + 1 <= Len(steps)
            /\ steps[j + 1].description =
                 "Applied " \o JoinedWithComma(
                   [k \in 1..Len(collected) |->
                      PlacementDescription(circuit, collected[k], columns[j])])

(***************************************************************************)
(* Property of the partial trace (SpecAnalysis).                           *)
(***************************************************************************)
\* the bits of index i on the qubits `kept` (ascending), packed from bit 0
RECURSIVE PackedBits(_, _)
PackedBits(i, kept) ==
  IF kept = << >> THEN 0
  ELSE Bit(i, kept[1]) + 2 * PackedBits(i, Tail(kept))

\* the index pairs summed into entry [a][b] when the qubits T are traced out
ContributingPairs(n, T, a, b) ==
  LET traced_ == { T[k] : k \in 1..Len(T) }
      kept == SetToSeq((0..(n - 1)) \ traced_)
  IN { pair \in (0..(Pow2(n) - 1)) \X (0..(Pow2(n) - 1)) :
         /\ \A q \in traced_ : Bit(pair[1], q) = Bit(pair[2], q)
         /\ PackedBits(pair[1], kept) = a
         /\ PackedBits(pair[2], kept) = b }

PanelYAmplitude(bit) ==
  IF bit = 0 THEN Cx(Zero, One) ELSE Cx(Zero, NumNeg(One))

\* C25: the state the stepper produces for a Y gate is the one the
\* explanation panel states: Y on a qubit in |0> gives amplitude +i on |1>,
\* Y on a qubit in |1> gives amplitude -i on |0>.
C25_YGateAsDisplayed ==
  \A q \in 0..(numQubits - 1) :
    (Evaluated /\ OnlyGate(circuit, "y", q)) =>
       LET b == BasisIndexOf(initialStates)
       IN outcome.steps[2].state =
            [i \in 0..(Pow2(numQubits) - 1) |->
               IF i = FlipBit(b, q) THEN PanelYAmplitude(Bit(b, q)) ELSE CZero]

(***************************************************************************)
(* Further properties of the text emitters (SpecEmit).                     *)
(***************************************************************************)
\* the header and register declarations of an OpenQASM text for n qubits
QasmPreamble(n) ==
  << "OPENQASM 2.0;", "include \"qelib1.inc\";",
     "qreg q[" \o ToString(n) \o "];", "creg c[" \o ToString(n) \o "];" >>

\* the single-cell placements with a gate id of the data model
DataModelSingleCells(c) ==
  { cell \in SingleCells(c) :
      c[cell[1]][cell[2]].gate.id \in SingleQubitIds \cup {"measure"} }

\* C26: convertToOpenQASM emits, after the header and the qreg/creg
\* declarations, exactly one instruction line per single-cell placement with
\* a data-model gate id (h, x, y, z, s, t, measure) and no other line for
\* that placement: the text is that of the circuit without the placement
\* with the one instruction line put in.  A measure placement yields only
\* 'measure q[r] -> c[r];'.
C26_OneLinePerSinglePlacement ==
  emitted.kind # "none" /\ emitted.emitter = "qasm" =>
    /\ emitted.kind = "text"
    /\ SubSeq(NonBlank(emitted.lines), 1, 4) = QasmPreamble(numQubits)
    /\ \A cell \in DataModelSingleCells(circuit) :
         LET rest == convertToOpenQASM(Without(circuit, cell), numQubits)
         IN \E k \in 5..(Len(NonBlank(rest.lines)) + 1) :
              NonBlank(emitted.lines) =
                InsertAt(NonBlank(rest.lines), k, QasmInstruction(circuit, numQubits, cell))

\* the control-side cells of the two-qubit gates of a circuit
TwoQubitControls(c, n) ==
  { cell \in Cells(n) : /\ c[cell[1]][cell[2]].gate.id \in TwoQubitIds
                        /\ c[cell[1]][cell[2]].gate.control }

\* the rows other than that of cell that hold the target of its gate
OtherTargetRows(c, n, cell) ==
  { r \in 0..(n - 1) : /\ r # cell[1]
                       /\ c[r][cell[2]].gate.target
                       /\ c[r][cell[2]].gate.id = c[cell[1]][cell[2]].gate.id }

\* the instruction line of emitter e for gate id from row r to row t
TwoOperandInstruction(e, id, r, t) ==
  LET text == controlGateText(e, id, r, t)
  IN text[Len(text)]

\* C27: for every two-qubit gate (cx, cz, swap, cp) the emitters and the
\* remote-request converter produce exactly one two-operand entry, from the
\* control row to a different row, the target row; a control with no target
\* in its column, or a target with no control, produces no entry.
C27_PairEntries ==
  LET data == convertToQiskitCircuit(circuit, numQubits, initialStates)
      entries == { k \in 1..Len(data.gates) : Len(data.gates[k].qubits) = 2 }
  IN emitted.kind # "none" =>
     /\ \A k \in entries :
          LET g == data.gates[k]
          IN /\ g.qubits[1] # g.qubits[2]
             /\ circuit[g.qubits[1]][g.position].gate.control
             /\ circuit[g.qubits[2]][g.position].gate.target
     /\ \A cell \in TwoQubitControls(circuit, numQubits) :
          Cardinality({ k \in entries :
                          /\ data.gates[k].position = cell[2]
                          /\ data.gates[k].qubits[1] = cell[1] })
            = IF OtherTargetRows(circuit, numQubits, cell) = {} THEN 0 ELSE 1
     /\ emitted.kind = "text" =>
          \A cell \in TwoQubitControls(circuit, numQubits) :
            LET id == circuit[cell[1]][cell[2]].gate.id
            IN SupportedBy(emitted.emitter, circuit[cell[1]][cell[2]].gate) =>
                 /\ TwoOperandInstruction(emitted.emitter, id, cell[1], cell[1])
                      \notin Lines(emitted.lines)
                 /\ OtherTargetRows(circuit, numQubits, cell) = {} =>
                      \A t \in 0..(numQubits - 1) :
                        TwoOperandInstruction(emitted.emitter, id, cell[1], t)
                          \notin Lines(emitted.lines)

\* the instructions (gate id, first operand, second operand or -1) a line
\* of emitter e can stand for
InstructionsOfLine(e, n, line) ==
  { ins \in SingleQubitIds \X (0..(n - 1)) \X {-1} :
      singleGateText(e, ins[1], ins[2])[1] = line }

\* the measurement instruction a line of emitter e stands for
MeasurementsOfLine(e, n, line) ==
  { << "measure", r, -1 >> : r \in { q \in 0..(n - 1) :
       line = IF e = "qiskit" THEN qiskitGate("measure", q)[1]
                              ELSE measureText(e, q)[1] } }

\* the two-qubit instruction a line of emitter e stands for
PairsOfLine(e, n, line) ==
  { ins \in TwoQubitIds \X (0..(n - 1)) \X (0..(n - 1)) :
      /\ SupportedBy(e, Gate(ins[1], "", TRUE, TRUE))
      /\ TwoOperandInstruction(e, ins[1], ins[2], ins[3]) = line }

ParsedLine(e, n, line) ==
  InstructionsOfLine(e, n, line) \cup MeasurementsOfLine(e, n, line)
    \cup PairsOfLine(e, n, line)

\* the sequence of instructions in a text of emitter e
InstructionSequence(e, n, lines) ==
  LET parsed == SelectSeq(lines, LAMBDA l : ParsedLine(e, n, l) # {})
  IN [k \in 1..Len(parsed) |-> CHOOSE ins \in ParsedLine(e, n, parsed[k]) : TRUE]

\* the placements with a gate id of the data model
DataModelPlacements(c, n) ==
  { cell \in SingleCells(c) \cup PairCells(c, n) :
      c[cell[1]][cell[2]].gate.id \in SingleQubitIds \cup {"measure"} \cup TwoQubitIds }

\* C28: for every circuit the sequence of (gate id, qubit operands)
\* instructions that convertToQiskitPython and generateQiskitCode emit for
\* the circuit's placements is the sequence convertToOpenQASM emits, in the
\* same order, every data-model gate id (cp and measure included) being
\* emitted as an instruction by all three.
C28_EmittersEquivalent ==
  emitted.kind = "text" =>
    LET qasm == InstructionSequence("qasm", numQubits,
                  convertToOpenQASM(circuit, numQubits).lines)
        python == InstructionSequence("python", numQubits,
                    convertToQiskitPython(circuit, numQubits).lines)
        qiskit == InstructionSequence("qiskit", numQubits,
                    generateQiskitCode(circuit, numQubits, initialStates).lines)
    IN /\ python = qasm
       /\ qiskit = qasm
       /\ Len(qasm) = Cardinality(DataModelPlacements(circuit, numQubits))

(***************************************************************************)
(* Further properties of the App (SpecApp).                                *)
(***************************************************************************)
\* C29: in every state reachable by the UI operations, whenever
\* simulationResults is non-null the step cursor satisfies
\* 0 <= currentStep <= simulationResults.length - 1, so that
\* simulationResults[currentStep] exists when it is rendered.
C29_CursorInRange ==
  simulationResults # Null =>
    /\ 0 <= currentStep
    /\ currentStep <= Len(simulationResults) - 1
    /\ currentStep + 1 \in DOMAIN simulationResults

\* the cursor has been stepped forward to the last step of a local history
C29_Witness ==
  /\ simulationResults # Null
  /\ Len(simulationResults) >= 2
  /\ currentStep = Len(simulationResults) - 1

\* the remote call of the run in flight resolves or rejects in this step
CallSettles == request.pending /\ ~request'.pending

\* C30: a run started with remote execution enabled sets isLoading; the step
\* in which its remote call resolves or rejects (success with or without a
\* statevector, failure with the mock fallback) sets isLoading back to false;
\* and while isLoading is true the Run and Clear controls are disabled, so
\* the request in flight is never replaced by a second run.
C30_LoadingLifecycle ==
  [][ /\ (runSimulation /\ useQiskit) => (isLoading' /\ request'.pending)
      /\ CallSettles => (isLoading /\ ~isLoading')
      /\ isLoading => /\ request.pending
                      /\ ~ENABLED runSimulation
                      /\ ~ENABLED clearCircuit
                      /\ request'.pending => (request' = request /\ isLoading')
    ]_vars

\* a second remote run is in flight after a first one has resolved with a
\* statevector and cleared the loading flag
C30_Witness ==
  /\ isLoading
  /\ request.pending
  /\ simulationResults # Null
  /\ simulationResults[1].description = "Qiskit simulation result"

====
